---- MODULE Spec2Model ----
(***************************************************************************)
(* Model of the pseudoterminal session controller of AITerm:               *)
(* src/src/aiterm/gui/terminal.py, class PseudoTerminal.                   *)
(*                                                                         *)
(* Characters are their code points (Python str elements), so that the     *)
(* comparisons of _process_output (char >= ' ') and the digit / letter     *)
(* tests of the escape parser are computed as the code computes them.      *)
(* Python lists are TLA+ sequences; a Python index i of a list of length n *)
(* is position i+1 for 0 <= i < n, position n+i+1 for -n <= i < 0, and an  *)
(* IndexError otherwise.                                                   *)
(***************************************************************************)
EXTENDS Integers, Sequences, FiniteSets, TLC

(***************************************************************************)
(* Bounds of the model.                                                    *)
(***************************************************************************)
TermRows == 2
TermCols == 2
MaxChunks == 3
MaxReads == 1
MaxStops == 2
MaxWrites == 1
MaxQueued == 2
MaxHistory == 3
MaxCdCalls == 3
MaxSessions == 2
MaxKeys == 2

(***************************************************************************)
(* Code points used by the interpreter.                                    *)
(***************************************************************************)
ESC == 27
LF == 10
CR == 13
BS == 8
SPACE == 32
LBRACKET == 91
SEMICOLON == 59
QUESTION == 63
AT == 64
SUPERSCRIPT_TWO == 178

\* Python's None, for the descriptor fields and the child handle
None == -1

\* output[:1000] of CommandHistory.add_command
OutputLimit == 1000

\* the bytes handle_key writes for Tab and Backspace
TAB == 9
DEL == 127

\* the glyph _get_screen_content shows the cursor as
FULL_BLOCK == 9608

\* the modifier bits of a Tk event's state
ShiftMask == 1
ControlMask == 4
NumLockMask == 16

\* the entries a caller passes to write()
Entries == {"q", "x"}

\* the threads of control: the caller's (UI) thread and the session's pump thread
Threads == {"ui", "pump"}

\* the processes of the child's process group: the spawned child (the group
\* leader, by preexec_fn=os.setsid) and a process the child spawned itself
Group == {"leader", "kid"}

VARIABLES
    \* ---- the screen buffer of the PseudoTerminal object
    screen,            \* self.screen: list of rows, each a list of characters
    cursor_x,          \* self.cursor_x
    cursor_y,          \* self.cursor_y
    saved_cursor,      \* self.saved_cursor: <<x, y>>
    alternate_screen,  \* self.alternate_screen
    proc_exc,          \* exception that escaped _process_output ("none" if none)
    chunks_fed,        \* number of chunks handed to _process_output so far
    last_text,         \* the text of the latest _process_output call
    \* ---- the session fields of the PseudoTerminal object
    master_fd,         \* self.master_fd
    slave_fd,          \* self.slave_fd
    process,           \* self.process: None or the Popen handle (its pid)
    running,           \* self.running
    write_queue,       \* self.write_queue
    \* ---- the operating system
    fd_open,           \* descriptors open in the controlling process
    close_calls,       \* os.close calls made so far, per descriptor of the pair
    alive,             \* processes of the child's group that are running
    forked,            \* the child has spawned its own child
    reaped,            \* Popen.returncode is set (the child was waited for)
    term_sent,         \* SIGTERM was delivered to the child
    written,           \* entries written to the master descriptor, in order
    \* ---- the threads
    pc,                \* per thread: the source line it is at
    stop_exc,          \* per thread: exception pending in stop() until its finally ran
    thread_exc,        \* per thread: the exception that escaped its last call
    r_ready,           \* pump local r of line 275: the master descriptor is in r
    r_fd,              \* pump local: the descriptor that was handed to select
    data,              \* pump local data: the chunk read / the entry dequeued
    pump_err,          \* pump local e: errno of the OSError caught at line 292
    \* ---- the collaborator's callbacks
    exit_calls,        \* invocations of exit_callback
    frame_calls,       \* invocations of callback (frames delivered)
    frame,             \* the argument of the latest callback invocation
    \* ---- bookkeeping of the calls made
    start_result,      \* "none" before start(), then "ok" or the step that failed
    stops_started,     \* stop() calls begun by the caller
    stop_outcome,      \* per thread: "none", "active", "returned", "raised"
    overlap,           \* per thread: its stop() call ran while the other thread was in stop()
    undelivered,       \* group members running when stop() signalled, and not signalled
    stop_case,         \* the situation in which the caller's latest stop() call began
    accepted,          \* entries write() has put on the queue so far, in order
    \* ---- the TerminalGUI object and the PseudoTerminal objects it created
    gui_pty,           \* self.pty: None or the session object it refers to
    in_pty_mode,       \* self.in_pty_mode
    gui_pc,            \* the source line the Tk thread is at, or "idle"
    sessions,          \* the PseudoTerminal objects created so far, oldest first
    keys_handled,      \* key events delivered to handle_key so far
    \* ---- the CommandHistory object
    history,           \* self.history
    history_file,      \* what the history file holds
    recent,            \* what the latest get_recent_commands call returned
    recent_count,      \* the count argument of that call
    \* ---- the CommandExecutor object
    working_directory, \* self.working_directory
    cd_arg,            \* the argument of the latest change_directory call
    cd_result,         \* what the latest change_directory call returned
    cd_calls           \* change_directory calls made so far

screen_vars == <<screen, cursor_x, cursor_y, saved_cursor, alternate_screen,
                 proc_exc, chunks_fed, last_text>>
obj_vars == <<master_fd, slave_fd, process, running, write_queue>>
os_vars == <<fd_open, close_calls, alive, forked, reaped, term_sent, written>>
thread_vars == <<pc, stop_exc, thread_exc, r_ready, r_fd, data, pump_err>>
cb_vars == <<exit_calls, frame_calls, frame>>
call_vars == <<start_result, stops_started, stop_outcome, overlap, undelivered,
              stop_case, accepted>>
session_vars == <<obj_vars, os_vars, thread_vars, cb_vars, call_vars>>

gui_vars == <<gui_pty, in_pty_mode, gui_pc, sessions, keys_handled>>
hist_vars == <<history, history_file, recent, recent_count>>
dir_vars == <<working_directory, cd_arg, cd_result, cd_calls>>
app_vars == <<gui_vars, hist_vars, dir_vars>>

vars == <<screen_vars, session_vars, app_vars>>

----------------------------------------------------------------------------
(***************************************************************************)
(* Python string helpers used by the escape parser.                        *)
(***************************************************************************)

\* c in 'abcdefghijklmnopqrstuvwxyzABCDEFGHIJKLMNOPQRSTUVWXYZ@'
IsTerminator(c) == (c \in 97..122) \/ (c \in 65..90) \/ (c = AT)

\* str.startswith
StartsWith(s, p) == Len(s) >= Len(p) /\ SubSeq(s, 1, Len(p)) = p

\* str.isdigit for one character: decimal digits and the other characters of
\* Unicode category "digit" (here the superscript two), for which int() fails.
IsDigitChar(c) == (c \in 48..57) \/ (c = SUPERSCRIPT_TWO)

\* str.isdigit: non-empty and every character a digit
IsDigit(p) == Len(p) > 0 /\ \A k \in 1..Len(p) : IsDigitChar(p[k])

\* int(p) succeeds exactly on decimal digits; otherwise ValueError
IntRaises(p) == \E k \in 1..Len(p) : p[k] \notin 48..57

RECURSIVE IntOf(_)
IntOf(p) == IF Len(p) = 0 THEN 0
            ELSE 10 * IntOf(SubSeq(p, 1, Len(p) - 1)) + (p[Len(p)] - 48)

\* str.split(';'): always at least one (possibly empty) field
RECURSIVE Split(_)
Split(s) ==
    IF \E k \in 1..Len(s) : s[k] = SEMICOLON
    THEN LET k == CHOOSE k \in 1..Len(s) :
                    s[k] = SEMICOLON /\ \A m \in 1..(k - 1) : s[m] # SEMICOLON
         IN <<SubSeq(s, 1, k - 1)>> \o Split(SubSeq(s, k + 1, Len(s)))
    ELSE <<s>>

\* Position of Python index i in a list of length n; 0 stands for IndexError
PyIndex(i, n) == IF 0 <= i /\ i < n THEN i + 1
                 ELSE IF i < 0 /\ -n <= i THEN n + i + 1
                 ELSE 0

----------------------------------------------------------------------------
(***************************************************************************)
(* The screen buffer and the escape-sequence interpreter.  A buffer state  *)
(* is a record st with the five fields of PseudoTerminal and exc, the      *)
(* exception raised while processing ("none" when processing went through).*)
(***************************************************************************)

BlankRow == [x \in 1..TermCols |-> SPACE]

\* _init_screen
init_screen == [y \in 1..TermRows |-> BlankRow]

\* _clear_screen
clear_screen(st) == [st EXCEPT !.screen = init_screen, !.cursor_x = 0, !.cursor_y = 0]

\* for x in range(self.cursor_x, self.cols): self.screen[self.cursor_y][x] = ' '
clear_line(st) ==
    IF st.cursor_x >= TermCols THEN st
    ELSE IF PyIndex(st.cursor_y, TermRows) = 0 THEN [st EXCEPT !.exc = "IndexError"]
    ELSE LET row == PyIndex(st.cursor_y, TermRows)
             cleared == {PyIndex(x, TermCols) : x \in st.cursor_x..(TermCols - 1)}
         IN IF 0 \in cleared THEN [st EXCEPT !.exc = "IndexError"]
            ELSE [st EXCEPT !.screen[row] =
                      [x \in 1..TermCols |-> IF x \in cleared THEN SPACE ELSE @[x]]]

\* params = [int(p) if p.isdigit() else 0 for p in seq[1:-1].split(';')]
ParamFields(seq) == Split(SubSeq(seq, 2, Len(seq) - 1))
ParamsRaise(seq) == \E k \in 1..Len(ParamFields(seq)) :
                        IsDigit(ParamFields(seq)[k]) /\ IntRaises(ParamFields(seq)[k])
Params(seq) == [k \in 1..Len(ParamFields(seq)) |->
                   IF IsDigit(ParamFields(seq)[k]) THEN IntOf(ParamFields(seq)[k]) ELSE 0]

\* the branch of _process_escape_sequence for seq.startswith('[?')
process_mode_sequence(st, seq) ==
    LET mode == SubSeq(seq, 3, Len(seq) - 1)
    IN IF mode = <<49, 48, 52, 57>>
       THEN IF \E k \in 1..Len(seq) : seq[k] = 104
            THEN [clear_screen(st) EXCEPT !.alternate_screen = TRUE]
            ELSE IF \E k \in 1..Len(seq) : seq[k] = 108
            THEN [clear_screen(st) EXCEPT !.alternate_screen = FALSE]
            ELSE st
       ELSE st

\* (mutation of process_csi_sequence: the saved pair is read back as (y, x))
process_csi_sequence_swaps(st, seq) ==
    IF ParamsRaise(seq) THEN [st EXCEPT !.exc = "ValueError"]
    ELSE LET cmd == seq[Len(seq)]
             params == Params(seq)
         IN CASE cmd = 72 ->
                   [st EXCEPT !.cursor_y = (IF Len(params) > 0 THEN params[1] ELSE 1) - 1,
                              !.cursor_x = (IF Len(params) > 1 THEN params[2] ELSE 1) - 1]
              [] cmd = 74 -> IF params[1] = 2 THEN clear_screen(st) ELSE st
              [] cmd = 75 -> IF Len(params) = 0 \/ params[1] = 0 THEN clear_line(st) ELSE st
              [] cmd = 115 -> [st EXCEPT !.saved_cursor = <<st.cursor_x, st.cursor_y>>]
              [] cmd = 117 -> [st EXCEPT !.cursor_x = st.saved_cursor[2],
                                         !.cursor_y = st.saved_cursor[1]]
              [] OTHER -> st

\* the branch of _process_escape_sequence for seq.startswith('[')
process_csi_sequence(st, seq) ==
    IF ParamsRaise(seq) THEN [st EXCEPT !.exc = "ValueError"]
    ELSE LET cmd == seq[Len(seq)]
             params == Params(seq)
         IN CASE cmd = 72 ->
                   [st EXCEPT !.cursor_y = (IF Len(params) > 0 THEN params[1] ELSE 1) - 1,
                              !.cursor_x = (IF Len(params) > 1 THEN params[2] ELSE 1) - 1]
              [] cmd = 74 -> IF params[1] = 2 THEN clear_screen(st) ELSE st
              [] cmd = 75 -> IF Len(params) = 0 \/ params[1] = 0 THEN clear_line(st) ELSE st
              [] cmd = 115 -> [st EXCEPT !.saved_cursor = <<st.cursor_x, st.cursor_y>>]
              [] cmd = 117 -> [st EXCEPT !.cursor_x = st.saved_cursor[1],
                                         !.cursor_y = st.saved_cursor[2]]
              [] OTHER -> st

\* _process_escape_sequence(seq): seq is the text after ESC, terminator included
process_escape_sequence(st, seq) ==
    IF StartsWith(seq, <<LBRACKET, QUESTION>>) THEN process_mode_sequence(st, seq)
    ELSE IF StartsWith(seq, <<LBRACKET>>) THEN process_csi_sequence(st, seq)
    ELSE st

\* lines 151-162: the effect of one character that is not a consumed sequence
put_char(st, char) ==
    IF char = LF THEN [st EXCEPT !.cursor_y = @ + 1, !.cursor_x = 0]
    ELSE IF char = CR THEN [st EXCEPT !.cursor_x = 0]
    ELSE IF char = BS THEN [st EXCEPT !.cursor_x = IF @ - 1 > 0 THEN @ - 1 ELSE 0]
    ELSE IF char >= SPACE
    THEN IF st.cursor_x < TermCols /\ st.cursor_y < TermRows
         THEN IF PyIndex(st.cursor_y, TermRows) = 0 \/ PyIndex(st.cursor_x, TermCols) = 0
              THEN [st EXCEPT !.exc = "IndexError"]
              ELSE [st EXCEPT
                      !.screen[PyIndex(st.cursor_y, TermRows)][PyIndex(st.cursor_x, TermCols)] = char,
                      !.cursor_x = @ + 1]
         ELSE st
    ELSE st

\* (mutation of wrap_line: the cursor returns to column 0 of the same row)
wrap_line_same_row(st) ==
    IF st.cursor_x >= TermCols
    THEN [st EXCEPT !.cursor_x = 0]
    ELSE st

\* lines 164-167: line wrapping
wrap_line(st) ==
    IF st.cursor_x >= TermCols
    THEN [st EXCEPT !.cursor_x = 0, !.cursor_y = @ + 1]
    ELSE st

\* (mutation of scroll_screen: the last row is discarded, not the first)
scroll_screen_drops_last(st) ==
    IF st.cursor_y >= TermRows
    THEN [st EXCEPT !.screen = Append(SubSeq(@, 1, Len(@) - 1), BlankRow),
                    !.cursor_y = TermRows - 1]
    ELSE st

\* (mutation of scroll_screen: no blank row is appended)
scroll_screen_no_append(st) ==
    IF st.cursor_y >= TermRows
    THEN [st EXCEPT !.screen = Tail(@), !.cursor_y = TermRows - 1]
    ELSE st

\* lines 169-173: scrolling
scroll_screen(st) ==
    IF st.cursor_y >= TermRows
    THEN [st EXCEPT !.screen = Append(Tail(@), BlankRow), !.cursor_y = TermRows - 1]
    ELSE st

\* j after the inner while loop of lines 143-145 (1-based position)
RECURSIVE FindEnd(_, _)
FindEnd(text, j) ==
    IF j <= Len(text) /\ ~IsTerminator(text[j]) THEN FindEnd(text, j + 1) ELSE j

\* the while loop of _process_output from (1-based) position i on
RECURSIVE process_from(_, _, _)
process_from(st, text, i) ==
    IF st.exc # "none" \/ i > Len(text) THEN st
    ELSE IF text[i] = ESC /\ FindEnd(text, i + 1) <= Len(text)
    THEN LET j == FindEnd(text, i + 1)
         IN process_from(process_escape_sequence(st, SubSeq(text, i + 1, j)), text, j + 1)
    ELSE LET put == put_char(st, text[i])
         IN IF put.exc # "none" THEN put
            ELSE process_from(scroll_screen(wrap_line(put)), text, i + 1)

\* the buffer fields of the object as a record
BufferState == [screen |-> screen, cursor_x |-> cursor_x, cursor_y |-> cursor_y,
                saved_cursor |-> saved_cursor, alternate_screen |-> alternate_screen,
                exc |-> "none"]

\* _process_output(data), data already decoded
process_output(text) == process_from(BufferState, text, 1)

\* str.rstrip() of a rendered line: the white space at its end is removed
RECURSIVE rstrip(_)
rstrip(line) ==
    IF Len(line) > 0 /\ line[Len(line)] = SPACE
    THEN rstrip(SubSeq(line, 1, Len(line) - 1))
    ELSE line

\* lines 305-310: the characters of row y (0-based), the cell under the
\* cursor shown as the block glyph
current_line(st, y) ==
    [x \in 1..Len(st.screen[y + 1]) |->
        IF x - 1 = st.cursor_x /\ y = st.cursor_y THEN FULL_BLOCK
        ELSE st.screen[y + 1][x]]

\* '\n'.join(output[first..]) for the rows from row y on
RECURSIVE join_lines(_, _)
join_lines(st, y) ==
    IF y >= Len(st.screen) THEN <<>>
    ELSE rstrip(current_line(st, y))
         \o (IF y + 1 < Len(st.screen) THEN <<LF>> ELSE <<>>)
         \o join_lines(st, y + 1)

\* (mutation of get_screen_content: the glyph is written into the grid)
get_screen_content_stores_glyph(st) ==
    [screen |-> [y \in 1..Len(st.screen) |-> current_line(st, y - 1)],
     output |-> join_lines(st, 0)]

\* _get_screen_content, lines 301-312: the text it returns, and the grid of
\* the object after the call
get_screen_content(st) ==
    [screen |-> st.screen, output |-> join_lines(st, 0)]

----------------------------------------------------------------------------
(***************************************************************************)
(* Chunks of child output: concatenations of these pieces.                 *)
(***************************************************************************)
CSI(body) == <<ESC, LBRACKET>> \o body

PlainPieces == { <<97>>, <<98>>, <<LF>>, <<CR>>, <<BS>> }

SequencePieces ==
    { CSI(<<72>>),                       \* ESC [ H
      CSI(<<50, SEMICOLON, 50, 72>>),    \* ESC [ 2 ; 2 H
      CSI(<<50, 72>>),                   \* ESC [ 2 H
      CSI(<<57, SEMICOLON, 49, 72>>),    \* ESC [ 9 ; 1 H
      CSI(<<49, SEMICOLON, 57, 72>>),    \* ESC [ 1 ; 9 H
      CSI(<<75>>),                       \* ESC [ K
      CSI(<<50, 74>>),                   \* ESC [ 2 J
      CSI(<<74>>),                       \* ESC [ J
      CSI(<<115>>),                      \* ESC [ s
      CSI(<<117>>),                      \* ESC [ u
      CSI(<<QUESTION, 49, 48, 52, 57, 104>>),   \* ESC [ ? 1049 h
      CSI(<<QUESTION, 49, 48, 52, 57, 108>>),   \* ESC [ ? 1049 l
      CSI(<<QUESTION, 50, 53, 108>>),    \* ESC [ ? 25 l
      CSI(<<49, 109>>),                  \* ESC [ 1 m
      CSI(<<SUPERSCRIPT_TWO, 72>>),      \* ESC [ superscript-two H
      CSI(<<SUPERSCRIPT_TWO, 109>>),     \* ESC [ superscript-two m
      <<ESC, 99>> }                      \* ESC c

UnterminatedPieces == { CSI(<<49>>), <<ESC>> }   \* ESC [ 1 and a lone ESC

\* k printable characters: a b a b ...
Run(k) == [x \in 1..k |-> IF x % 2 = 1 THEN 97 ELSE 98]

\* runs of up to one character more than a row holds
PrintableRuns == { Run(k) : k \in 1..(TermCols + 1) }

\* sequences _process_escape_sequence has no branch for
UnrecognizedPieces ==
    { CSI(<<QUESTION, 50, 53, 108>>), CSI(<<49, 109>>),
      CSI(<<SUPERSCRIPT_TWO, 109>>), <<ESC, 99>> }

Chunks == PlainPieces \cup SequencePieces \cup UnterminatedPieces
          \cup { p \o q : p \in {<<97>>, CSI(<<57, SEMICOLON, 49, 72>>)},
                          q \in {CSI(<<75>>), CSI(<<49>>)} }
          \cup PrintableRuns
          \cup { p \o <<98>> : p \in UnrecognizedPieces }
          \cup { <<LF>> \o CSI(<<115>>) }            \* newline, then ESC [ s

----------------------------------------------------------------------------
(***************************************************************************)
(* The file system change_directory looks at.  An absolute path is the     *)
(* sequence of its components, "/" being the empty sequence.               *)
(*   /a  /a/b  /c   directories          /a/f   a regular file             *)
(*   /l -> /a/b     symbolic link        /d -> /x   dangling symbolic link *)
(***************************************************************************)
Directories == { <<>>, <<"a">>, <<"a", "b">>, <<"c">> }

RegularFiles == { <<"a", "f">> }

SymLinks == { <<"l">>, <<"d">> }

LinkTarget(p) == IF p = <<"l">> THEN <<"a", "b">> ELSE <<"x">>

\* os.path.expanduser('~'), and the directory the process was started in
Home == <<"a">>

----------------------------------------------------------------------------
(***************************************************************************)
(* The object after PseudoTerminal.__init__ (lines 60-90), in a process    *)
(* whose standard descriptors 0, 1 and 2 are open.                         *)
(***************************************************************************)
Init ==
    /\ screen = init_screen
    /\ cursor_x = 0
    /\ cursor_y = 0
    /\ saved_cursor = <<0, 0>>
    /\ alternate_screen = FALSE
    /\ proc_exc = "none"
    /\ chunks_fed = 0
    /\ last_text = <<>>
    /\ master_fd = None
    /\ slave_fd = None
    /\ process = None
    /\ running = FALSE
    /\ write_queue = <<>>
    /\ fd_open = {0, 1, 2}
    /\ close_calls = [fd \in {} |-> 0]
    /\ alive = {}
    /\ forked = FALSE
    /\ reaped = FALSE
    /\ term_sent = FALSE
    /\ written = <<>>
    /\ pc = [t \in Threads |-> IF t = "ui" THEN "idle" ELSE "none"]
    /\ stop_exc = [t \in Threads |-> "none"]
    /\ thread_exc = [t \in Threads |-> "none"]
    /\ r_ready = FALSE
    /\ r_fd = None
    /\ data = <<>>
    /\ pump_err = "none"
    /\ exit_calls = 0
    /\ frame_calls = 0
    /\ frame = <<>>
    /\ start_result = "none"
    /\ stops_started = 0
    /\ stop_outcome = [t \in Threads |-> "none"]
    /\ overlap = [t \in Threads |-> FALSE]
    /\ undelivered = {}
    /\ stop_case = "none"
    /\ accepted = <<>>
    /\ gui_pty = None
    /\ in_pty_mode = FALSE
    /\ gui_pc = "idle"
    /\ sessions = <<>>
    /\ keys_handled = 0
    /\ history = <<>>
    /\ history_file = <<>>
    /\ recent = <<>>
    /\ recent_count = None
    /\ working_directory = Home
    /\ cd_arg = <<>>
    /\ cd_result = <<>>
    /\ cd_calls = 0

----------------------------------------------------------------------------
(***************************************************************************)
(* Operating-system helpers.                                               *)
(***************************************************************************)

\* the lowest descriptor number not in use, as open() and openpty() allocate
LowestFree(open) ==
    CHOOSE n \in 0..Cardinality(open) : n \notin open /\ \A m \in 0..(n - 1) : m \in open

\* os.close(fd) was called: one more call recorded for fd
CloseCalled(calls, fd) ==
    IF fd \in DOMAIN calls THEN [calls EXCEPT ![fd] = @ + 1] ELSE calls

\* Python truth value of a descriptor field: None and 0 are false
Truthy(fd) == fd # None /\ fd # 0

----------------------------------------------------------------------------
(***************************************************************************)
(* start(command), lines 182-229.  It runs on the caller's thread before   *)
(* the pump thread exists, so it is one step.  The steps of the try block  *)
(* that can raise, in order.                                               *)
(***************************************************************************)
StartFailures == {"openpty", "winsize", "split", "spawn", "thread"}

\* (mutation of start_cleanup: the subordinate descriptor is not closed)
start_cleanup_master_only(m, s) == IF Truthy(m) THEN <<m>> ELSE <<>>

\* lines 225-228: the descriptors the except clause calls os.close on, in order
start_cleanup(m, s) ==
    (IF Truthy(m) THEN <<m>> ELSE <<>>) \o (IF Truthy(s) THEN <<s>> ELSE <<>>)

\* the descriptors of a sequence of os.close calls
RECURSIVE CloseAll(_, _)
CloseAll(calls, fds) ==
    IF fds = <<>> THEN calls ELSE CloseAll(CloseCalled(calls, Head(fds)), Tail(fds))

Range(f) == {f[k] : k \in DOMAIN f}

start(fail) ==
    /\ pc["ui"] = "idle"
    /\ start_result = "none"
    /\ stops_started = 0
    /\ start_result' = IF fail = "none" THEN "ok" ELSE fail
    /\ thread_exc' = [thread_exc EXCEPT !["ui"] = IF fail = "none" THEN "none" ELSE "Exception"]
    /\ IF fail = "openpty"
       THEN \* os.openpty raised: nothing was assigned, the except clause closes nothing
            /\ UNCHANGED <<master_fd, slave_fd, process, running, fd_open, close_calls,
                           alive, pc>>
       ELSE LET m == LowestFree(fd_open)
                s == LowestFree(fd_open \cup {m})
                pair == [fd \in {m, s} |-> 0]
            IN /\ master_fd' = m
               /\ slave_fd' = s
               /\ IF fail \in {"winsize", "split", "spawn"}
                  THEN \* lines 223-229 with both descriptors open
                       /\ fd_open' = fd_open \ Range(start_cleanup(m, s))
                       /\ close_calls' = CloseAll(pair, start_cleanup(m, s))
                       /\ UNCHANGED <<process, running, alive, pc>>
                  ELSE \* lines 203-216: child spawned, subordinate end closed
                       /\ process' = 1
                       /\ alive' = {"leader"}
                       /\ running' = TRUE
                       /\ IF fail = "thread"
                          THEN \* Thread.start raised: the except clause closes the
                               \* master and calls os.close on the subordinate again
                               /\ fd_open' = fd_open \ Range(start_cleanup(m, s))
                               /\ close_calls' = CloseAll(CloseCalled(pair, s), start_cleanup(m, s))
                               /\ UNCHANGED pc
                          ELSE /\ fd_open' = fd_open \cup {m}
                               /\ close_calls' = CloseCalled(pair, s)
                               /\ pc' = [pc EXCEPT !["pump"] = "272"]
    /\ UNCHANGED <<write_queue, forked, reaped, term_sent, written, stop_exc,
                   r_ready, r_fd, data, pump_err, stops_started, stop_outcome,
                   overlap, undelivered, stop_case, accepted>>
    /\ UNCHANGED <<screen_vars, cb_vars>>
    /\ UNCHANGED app_vars

Start == \E fail \in StartFailures \cup {"none"} : start(fail)

(***************************************************************************)
(* write(data), lines 314-317.  queue.Queue.put on an unbounded queue.     *)
(***************************************************************************)
\* (mutation of write: the running flag is not tested)
write_unguarded(entry) ==
    /\ pc["ui"] = "idle"
    /\ write_queue' = Append(write_queue, entry)
    /\ accepted' = Append(accepted, entry)
    /\ UNCHANGED <<master_fd, slave_fd, process, running>>
    /\ UNCHANGED <<start_result, stops_started, stop_outcome, overlap, undelivered,
                   stop_case>>
    /\ UNCHANGED <<screen_vars, os_vars, thread_vars, cb_vars>>
    /\ UNCHANGED app_vars

write(entry) ==
    /\ pc["ui"] = "idle"
    /\ write_queue' = IF running THEN Append(write_queue, entry) ELSE write_queue
    /\ accepted' = IF running THEN Append(accepted, entry) ELSE accepted
    /\ UNCHANGED <<master_fd, slave_fd, process, running>>
    /\ UNCHANGED <<start_result, stops_started, stop_outcome, overlap, undelivered,
                   stop_case>>
    /\ UNCHANGED <<screen_vars, os_vars, thread_vars, cb_vars>>
    /\ UNCHANGED app_vars

\* the caller's write() calls of a session, MaxWrites of them accepted
Write == \E entry \in Entries : Len(accepted) < MaxWrites /\ write(entry)

(***************************************************************************)
(* The child's process group, on its own.                                  *)
(***************************************************************************)
\* the child spawns a process of its own, which joins its group
ChildForks ==
    /\ "leader" \in alive
    /\ ~forked
    /\ forked' = TRUE
    /\ alive' = alive \cup {"kid"}
    /\ UNCHANGED <<fd_open, close_calls, reaped, term_sent, written>>
    /\ UNCHANGED <<screen_vars, obj_vars, thread_vars, cb_vars, call_vars>>
    /\ UNCHANGED app_vars

\* a process of the group exits by itself
ChildExits ==
    /\ \E p \in alive : alive' = alive \ {p}
    /\ UNCHANGED <<fd_open, close_calls, forked, reaped, term_sent, written>>
    /\ UNCHANGED <<screen_vars, obj_vars, thread_vars, cb_vars, call_vars>>
    /\ UNCHANGED app_vars

----------------------------------------------------------------------------
(***************************************************************************)
(* stop(), lines 231-268, one step per statement that reads or writes the  *)
(* object or the operating system; the caller's thread and the pump thread *)
(* (line 297) can both be inside it.  pc[t] is the line thread t is about  *)
(* to execute.                                                             *)
(***************************************************************************)
StopLines == {"238", "242", "246", "251", "252", "257", "260", "262", "265", "268"}

InStop(t) == pc[t] \in StopLines

Other(t) == IF t = "ui" THEN "pump" ELSE "ui"

\* `errno` is bound in the module namespace (import lines 5-24 name no errno).
\* Evaluating errno.EBADF (line 265) or errno.EINTR (line 293) raises
\* NameError when it is not.
errno_imported == FALSE

\* thread t leaves stop() by returning
StopReturns(t) ==
    /\ pc' = [pc EXCEPT ![t] = IF t = "ui" THEN "idle" ELSE "298"]
    /\ stop_outcome' = [stop_outcome EXCEPT ![t] = "returned"]
    /\ thread_exc' = [thread_exc EXCEPT ![t] = "none"]

\* exception e leaves stop() in thread t: back in the caller, or the end of
\* the pump thread (nothing in _read_loop catches around line 297)
StopRaises(t, e) ==
    /\ pc' = [pc EXCEPT ![t] = IF t = "ui" THEN "idle" ELSE "crashed"]
    /\ stop_outcome' = [stop_outcome EXCEPT ![t] = "raised"]
    /\ thread_exc' = [thread_exc EXCEPT ![t] = e]

\* the situation in which the caller calls stop(): on an object never started,
\* again after an earlier stop() call, on an object whose start() raised,
\* after the pump thread has ended, or on a live session
StopCase ==
    IF start_result = "none" THEN "never_started"
    ELSE IF stops_started > 0 THEN "repeat"
    ELSE IF start_result # "ok" THEN "failed_start"
    ELSE IF pc["pump"] \in {"done", "crashed"} THEN "ended"
    ELSE "live"

\* line 236, entered from the caller (t = "ui") or from line 297 (t = "pump")
stop_236(t) ==
    /\ \/ t = "ui" /\ pc[t] = "idle" /\ stops_started < MaxStops
       \/ t = "pump" /\ pc[t] = "297"
    /\ running' = FALSE
    /\ pc' = [pc EXCEPT ![t] = "238"]
    /\ stops_started' = IF t = "ui" THEN stops_started + 1 ELSE stops_started
    /\ stop_outcome' = [stop_outcome EXCEPT ![t] = "active"]
    /\ overlap' = [u \in Threads |-> IF u = t THEN InStop(Other(t))
                                     ELSE overlap[u] \/ InStop(u)]
    /\ thread_exc' = [thread_exc EXCEPT ![t] = "none"]
    /\ stop_case' = IF t = "ui" THEN StopCase ELSE stop_case
    /\ UNCHANGED <<master_fd, slave_fd, process, write_queue, stop_exc, r_ready,
                   r_fd, data, pump_err, start_result, undelivered, accepted>>
    /\ UNCHANGED <<screen_vars, os_vars, cb_vars>>
    /\ UNCHANGED app_vars

\* line 238: if hasattr(self, 'process') and self.process
stop_238(t) ==
    /\ pc[t] = "238"
    /\ pc' = [pc EXCEPT ![t] = IF process # None THEN "242" ELSE "260"]
    /\ UNCHANGED <<stop_exc, thread_exc, r_ready, r_fd, data, pump_err>>
    /\ UNCHANGED <<screen_vars, obj_vars, os_vars, cb_vars, call_vars>>
    /\ UNCHANGED app_vars

\* the processes Popen.send_signal reaches: os.kill(self.pid, sig) signals
\* the process with that pid, the group leader
signal_targets(group) == group \cap {"leader"}

\* line 242: self.process.terminate()
\*   self.process is None: AttributeError, not caught by line 254
\*   Popen.send_signal polls first: a child that exited is reaped, no signal
\*   os.kill may raise OSError (caught at line 254), else SIGTERM is delivered
stop_242(t) ==
    /\ pc[t] = "242"
    /\ IF process = None
       THEN /\ stop_exc' = [stop_exc EXCEPT ![t] = "AttributeError"]
            /\ pc' = [pc EXCEPT ![t] = "257"]
            /\ UNCHANGED <<reaped, term_sent, undelivered>>
       ELSE IF reaped \/ "leader" \notin alive
       THEN /\ reaped' = TRUE
            /\ pc' = [pc EXCEPT ![t] = "246"]
            /\ UNCHANGED <<stop_exc, term_sent, undelivered>>
       ELSE \/ /\ pc' = [pc EXCEPT ![t] = "257"]
               /\ UNCHANGED <<stop_exc, reaped, term_sent, undelivered>>
            \/ /\ term_sent' = ("leader" \in signal_targets(alive))
               /\ undelivered' = undelivered \cup (alive \ signal_targets(alive))
               /\ pc' = [pc EXCEPT ![t] = "246"]
               /\ UNCHANGED <<stop_exc, reaped>>
    /\ UNCHANGED <<fd_open, close_calls, alive, forked, written>>
    /\ UNCHANGED <<thread_exc, r_ready, r_fd, data, pump_err>>
    /\ UNCHANGED <<start_result, stops_started, stop_outcome, overlap, stop_case, accepted>>
    /\ UNCHANGED <<screen_vars, obj_vars, cb_vars>>
    /\ UNCHANGED app_vars

\* line 246: self.process.wait(timeout=1)
\*   the child has exited: reaped, returns; it exits on the SIGTERM within
\*   the second: reaped, returns; otherwise TimeoutExpired (line 248)
stop_246(t) ==
    /\ pc[t] = "246"
    /\ IF process = None
       THEN /\ stop_exc' = [stop_exc EXCEPT ![t] = "AttributeError"]
            /\ pc' = [pc EXCEPT ![t] = "257"]
            /\ UNCHANGED <<reaped, alive>>
       ELSE IF "leader" \notin alive
       THEN /\ reaped' = TRUE
            /\ pc' = [pc EXCEPT ![t] = "257"]
            /\ UNCHANGED <<stop_exc, alive>>
       ELSE \/ /\ term_sent
               /\ alive' = alive \ {"leader"}
               /\ reaped' = TRUE
               /\ pc' = [pc EXCEPT ![t] = "257"]
               /\ UNCHANGED stop_exc
            \/ /\ pc' = [pc EXCEPT ![t] = "251"]
               /\ UNCHANGED <<stop_exc, reaped, alive>>
    /\ UNCHANGED <<fd_open, close_calls, forked, term_sent, written>>
    /\ UNCHANGED <<thread_exc, r_ready, r_fd, data, pump_err>>
    /\ UNCHANGED <<screen_vars, obj_vars, cb_vars, call_vars>>
    /\ UNCHANGED app_vars

\* (mutation of stop_251: the SIGKILL is not delivered)
stop_251_no_kill(t) ==
    /\ pc[t] = "251"
    /\ IF process = None
       THEN /\ stop_exc' = [stop_exc EXCEPT ![t] = "AttributeError"]
            /\ pc' = [pc EXCEPT ![t] = "257"]
       ELSE /\ pc' = [pc EXCEPT ![t] = "252"]
            /\ UNCHANGED stop_exc
    /\ UNCHANGED <<reaped, alive, undelivered>>
    /\ UNCHANGED <<fd_open, close_calls, forked, term_sent, written>>
    /\ UNCHANGED <<thread_exc, r_ready, r_fd, data, pump_err>>
    /\ UNCHANGED <<start_result, stops_started, stop_outcome, overlap, stop_case, accepted>>
    /\ UNCHANGED <<screen_vars, obj_vars, cb_vars>>
    /\ UNCHANGED app_vars

\* line 251: self.process.kill()
stop_251(t) ==
    /\ pc[t] = "251"
    /\ IF process = None
       THEN /\ stop_exc' = [stop_exc EXCEPT ![t] = "AttributeError"]
            /\ pc' = [pc EXCEPT ![t] = "257"]
            /\ UNCHANGED <<reaped, alive, undelivered>>
       ELSE IF reaped \/ "leader" \notin alive
       THEN /\ reaped' = TRUE
            /\ pc' = [pc EXCEPT ![t] = "252"]
            /\ UNCHANGED <<stop_exc, alive, undelivered>>
       ELSE \/ /\ pc' = [pc EXCEPT ![t] = "257"]
               /\ UNCHANGED <<stop_exc, reaped, alive, undelivered>>
            \/ /\ alive' = alive \ signal_targets(alive)
               /\ undelivered' = undelivered \cup (alive \ signal_targets(alive))
               /\ pc' = [pc EXCEPT ![t] = "252"]
               /\ UNCHANGED <<stop_exc, reaped>>
    /\ UNCHANGED <<fd_open, close_calls, forked, term_sent, written>>
    /\ UNCHANGED <<thread_exc, r_ready, r_fd, data, pump_err>>
    /\ UNCHANGED <<start_result, stops_started, stop_outcome, overlap, stop_case, accepted>>
    /\ UNCHANGED <<screen_vars, obj_vars, cb_vars>>
    /\ UNCHANGED app_vars

\* line 252: self.process.wait(), which returns once the child has exited
stop_252(t) ==
    /\ pc[t] = "252"
    /\ IF process = None
       THEN /\ stop_exc' = [stop_exc EXCEPT ![t] = "AttributeError"]
            /\ pc' = [pc EXCEPT ![t] = "257"]
            /\ UNCHANGED reaped
       ELSE /\ "leader" \notin alive
            /\ reaped' = TRUE
            /\ pc' = [pc EXCEPT ![t] = "257"]
            /\ UNCHANGED stop_exc
    /\ UNCHANGED <<fd_open, close_calls, alive, forked, term_sent, written>>
    /\ UNCHANGED <<thread_exc, r_ready, r_fd, data, pump_err>>
    /\ UNCHANGED <<screen_vars, obj_vars, cb_vars, call_vars>>
    /\ UNCHANGED app_vars

\* lines 256-257: finally: self.process = None; a pending exception goes on
stop_257(t) ==
    /\ pc[t] = "257"
    /\ process' = None
    /\ IF stop_exc[t] # "none"
       THEN /\ StopRaises(t, stop_exc[t])
            /\ stop_exc' = [stop_exc EXCEPT ![t] = "none"]
       ELSE /\ pc' = [pc EXCEPT ![t] = "260"]
            /\ UNCHANGED <<stop_exc, thread_exc, stop_outcome>>
    /\ UNCHANGED <<master_fd, slave_fd, running, write_queue>>
    /\ UNCHANGED <<r_ready, r_fd, data, pump_err>>
    /\ UNCHANGED <<start_result, stops_started, overlap, undelivered, stop_case,
                   accepted>>
    /\ UNCHANGED <<screen_vars, os_vars, cb_vars>>
    /\ UNCHANGED app_vars

\* line 260: if self.master_fd is not None
stop_260(t) ==
    /\ pc[t] = "260"
    /\ IF master_fd # None
       THEN /\ pc' = [pc EXCEPT ![t] = "262"]
            /\ UNCHANGED <<stop_outcome, thread_exc>>
       ELSE StopReturns(t)
    /\ UNCHANGED <<stop_exc, r_ready, r_fd, data, pump_err>>
    /\ UNCHANGED <<start_result, stops_started, overlap, undelivered, stop_case,
                   accepted>>
    /\ UNCHANGED <<screen_vars, obj_vars, os_vars, cb_vars>>
    /\ UNCHANGED app_vars

\* line 262: os.close(self.master_fd)
\*   None by now: TypeError, not caught by line 264
\*   not an open descriptor: OSError with errno EBADF, caught at line 264
stop_262(t) ==
    /\ pc[t] = "262"
    /\ IF master_fd = None
       THEN /\ stop_exc' = [stop_exc EXCEPT ![t] = "TypeError"]
            /\ pc' = [pc EXCEPT ![t] = "268"]
            /\ UNCHANGED <<fd_open, close_calls>>
       ELSE /\ close_calls' = CloseCalled(close_calls, master_fd)
            /\ fd_open' = fd_open \ {master_fd}
            /\ pc' = [pc EXCEPT ![t] = IF master_fd \in fd_open THEN "268" ELSE "265"]
            /\ UNCHANGED stop_exc
    /\ UNCHANGED <<alive, forked, reaped, term_sent, written>>
    /\ UNCHANGED <<thread_exc, r_ready, r_fd, data, pump_err>>
    /\ UNCHANGED <<screen_vars, obj_vars, cb_vars, call_vars>>
    /\ UNCHANGED app_vars

\* line 265: if e.errno != errno.EBADF (the error is ignored when it is EBADF)
stop_265(t) ==
    /\ pc[t] = "265"
    /\ stop_exc' = [stop_exc EXCEPT ![t] = IF errno_imported THEN "none" ELSE "NameError"]
    /\ pc' = [pc EXCEPT ![t] = "268"]
    /\ UNCHANGED <<thread_exc, r_ready, r_fd, data, pump_err>>
    /\ UNCHANGED <<screen_vars, obj_vars, os_vars, cb_vars, call_vars>>
    /\ UNCHANGED app_vars

\* (mutation of stop_268: the finally clause does not clear self.master_fd)
stop_268_keeps_fd(t) ==
    /\ pc[t] = "268"
    /\ IF stop_exc[t] # "none"
       THEN /\ StopRaises(t, stop_exc[t])
            /\ stop_exc' = [stop_exc EXCEPT ![t] = "none"]
       ELSE /\ StopReturns(t)
            /\ UNCHANGED stop_exc
    /\ UNCHANGED <<r_ready, r_fd, data, pump_err>>
    /\ UNCHANGED <<start_result, stops_started, overlap, undelivered, stop_case,
                   accepted>>
    /\ UNCHANGED <<screen_vars, obj_vars, os_vars, cb_vars>>
    /\ UNCHANGED app_vars

\* lines 267-268: finally: self.master_fd = None; a pending exception goes on
stop_268(t) ==
    /\ pc[t] = "268"
    /\ master_fd' = None
    /\ IF stop_exc[t] # "none"
       THEN /\ StopRaises(t, stop_exc[t])
            /\ stop_exc' = [stop_exc EXCEPT ![t] = "none"]
       ELSE /\ StopReturns(t)
            /\ UNCHANGED stop_exc
    /\ UNCHANGED <<slave_fd, process, running, write_queue>>
    /\ UNCHANGED <<r_ready, r_fd, data, pump_err>>
    /\ UNCHANGED <<start_result, stops_started, overlap, undelivered, stop_case,
                   accepted>>
    /\ UNCHANGED <<screen_vars, os_vars, cb_vars>>
    /\ UNCHANGED app_vars

Stop == \E t \in Threads :
    \/ stop_236(t) \/ stop_238(t) \/ stop_242(t) \/ stop_246(t) \/ stop_251(t)
    \/ stop_252(t) \/ stop_257(t) \/ stop_260(t) \/ stop_262(t) \/ stop_265(t)
    \/ stop_268(t)

----------------------------------------------------------------------------
(***************************************************************************)
(* _read_loop, lines 270-299: the pump thread, one step per statement that *)
(* reads or writes the object or the operating system.                     *)
(***************************************************************************)

\* the chunks the child writes in a session
SessionChunks == { <<97>>, CSI(<<57, SEMICOLON, 49, 72>>) \o CSI(<<75>>) }

\* an exception nothing in _read_loop catches ends the pump thread
PumpDies(e) ==
    /\ pc' = [pc EXCEPT !["pump"] = "crashed"]
    /\ thread_exc' = [thread_exc EXCEPT !["pump"] = e]

\* an OSError with the given errno is raised inside the try of line 273
PumpCatches(err) ==
    /\ pc' = [pc EXCEPT !["pump"] = "293"]
    /\ pump_err' = err
    /\ UNCHANGED thread_exc

\* line 272: while self.running
loop_272 ==
    /\ pc["pump"] = "272"
    /\ pc' = [pc EXCEPT !["pump"] = IF running THEN "275" ELSE "296"]
    /\ UNCHANGED <<stop_exc, thread_exc, r_ready, r_fd, data, pump_err>>
    /\ UNCHANGED <<screen_vars, obj_vars, os_vars, cb_vars, call_vars>>
    /\ UNCHANGED app_vars

\* line 275: r, w, e = select.select([self.master_fd], [], [], 0.1)
\*   [None]: TypeError, not an OSError; a closed descriptor: OSError EBADF;
\*   the descriptor is readable when there is child output or every process
\*   holding the subordinate end is gone.  (An interrupted select is retried
\*   by the interpreter itself and raises no OSError.)
loop_275 ==
    /\ pc["pump"] = "275"
    /\ IF master_fd = None
       THEN PumpDies("TypeError") /\ UNCHANGED <<r_ready, r_fd, pump_err>>
       ELSE IF master_fd \notin fd_open
       THEN PumpCatches("EBADF") /\ UNCHANGED <<r_ready, r_fd>>
       ELSE /\ r_fd' = master_fd
            /\ \/ r_ready' = TRUE /\ (alive = {} \/ chunks_fed < MaxReads)
               \/ r_ready' = FALSE /\ alive # {}
            /\ pc' = [pc EXCEPT !["pump"] = "276"]
            /\ UNCHANGED <<thread_exc, pump_err>>
    /\ UNCHANGED <<stop_exc, data>>
    /\ UNCHANGED <<screen_vars, obj_vars, os_vars, cb_vars, call_vars>>
    /\ UNCHANGED app_vars

\* line 276: if self.master_fd in r
loop_276 ==
    /\ pc["pump"] = "276"
    /\ pc' = [pc EXCEPT !["pump"] = IF r_ready /\ master_fd = r_fd THEN "277" ELSE "287"]
    /\ r_ready' = FALSE
    /\ r_fd' = None
    /\ UNCHANGED <<stop_exc, thread_exc, data, pump_err>>
    /\ UNCHANGED <<screen_vars, obj_vars, os_vars, cb_vars, call_vars>>
    /\ UNCHANGED app_vars

\* line 277: data = os.read(self.master_fd, 1024), and the test of line 278
\*   with no process left on the subordinate end the read returns b'' (BSD,
\*   macOS) or raises OSError EIO (Linux)
loop_277 ==
    /\ pc["pump"] = "277"
    /\ IF master_fd = None
       THEN PumpDies("TypeError") /\ UNCHANGED <<data, pump_err>>
       ELSE IF master_fd \notin fd_open
       THEN PumpCatches("EBADF") /\ UNCHANGED data
       ELSE IF alive = {}
       THEN \/ /\ data' = <<>>
               /\ pc' = [pc EXCEPT !["pump"] = "296"]
               /\ UNCHANGED <<thread_exc, pump_err>>
            \/ PumpCatches("EIO") /\ UNCHANGED data
       ELSE /\ chunks_fed < MaxReads
            /\ \E chunk \in SessionChunks : data' = chunk
            /\ pc' = [pc EXCEPT !["pump"] = "279"]
            /\ UNCHANGED <<thread_exc, pump_err>>
    /\ UNCHANGED <<stop_exc, r_ready, r_fd>>
    /\ UNCHANGED <<screen_vars, obj_vars, os_vars, cb_vars, call_vars>>
    /\ UNCHANGED app_vars

\* lines 279-280: self._process_output(data); self.callback(self._get_screen_content())
loop_279 ==
    /\ pc["pump"] = "279"
    /\ LET st == process_output(data)
           shown == get_screen_content(st)
       IN /\ cursor_x' = st.cursor_x
          /\ cursor_y' = st.cursor_y
          /\ saved_cursor' = st.saved_cursor
          /\ alternate_screen' = st.alternate_screen
          /\ proc_exc' = st.exc
          /\ IF st.exc # "none"
             THEN /\ PumpDies(st.exc)
                  /\ screen' = st.screen
                  /\ UNCHANGED <<frame_calls, frame>>
             ELSE /\ screen' = shown.screen
                  /\ frame_calls' = frame_calls + 1
                  /\ frame' = shown.output
                  /\ pc' = [pc EXCEPT !["pump"] = "287"]
                  /\ UNCHANGED thread_exc
    /\ chunks_fed' = chunks_fed + 1
    /\ last_text' = data
    /\ data' = <<>>
    /\ UNCHANGED <<stop_exc, r_ready, r_fd, pump_err, exit_calls>>
    /\ UNCHANGED <<obj_vars, os_vars, call_vars>>
    /\ UNCHANGED app_vars

\* (mutation of loop_287: the newest entry is taken, not the oldest)
loop_287_lifo ==
    /\ pc["pump"] = "287"
    /\ IF write_queue = <<>>
       THEN /\ pc' = [pc EXCEPT !["pump"] = "272"]
            /\ UNCHANGED <<write_queue, data>>
       ELSE /\ data' = write_queue[Len(write_queue)]
            /\ write_queue' = SubSeq(write_queue, 1, Len(write_queue) - 1)
            /\ pc' = [pc EXCEPT !["pump"] = "288"]
    /\ UNCHANGED <<master_fd, slave_fd, process, running>>
    /\ UNCHANGED <<stop_exc, thread_exc, r_ready, r_fd, pump_err>>
    /\ UNCHANGED <<screen_vars, os_vars, cb_vars, call_vars>>
    /\ UNCHANGED app_vars

\* line 287: data = self.write_queue.get_nowait(), queue.Empty passed at 289
loop_287 ==
    /\ pc["pump"] = "287"
    /\ IF write_queue = <<>>
       THEN /\ pc' = [pc EXCEPT !["pump"] = "272"]
            /\ UNCHANGED <<write_queue, data>>
       ELSE /\ data' = Head(write_queue)
            /\ write_queue' = Tail(write_queue)
            /\ pc' = [pc EXCEPT !["pump"] = "288"]
    /\ UNCHANGED <<master_fd, slave_fd, process, running>>
    /\ UNCHANGED <<stop_exc, thread_exc, r_ready, r_fd, pump_err>>
    /\ UNCHANGED <<screen_vars, os_vars, cb_vars, call_vars>>
    /\ UNCHANGED app_vars

\* line 288: os.write(self.master_fd, data.encode())
loop_288 ==
    /\ pc["pump"] = "288"
    /\ IF master_fd = None
       THEN PumpDies("TypeError") /\ UNCHANGED <<written, pump_err>>
       ELSE IF master_fd \notin fd_open
       THEN PumpCatches("EBADF") /\ UNCHANGED written
       ELSE /\ written' = Append(written, data)
            /\ pc' = [pc EXCEPT !["pump"] = "272"]
            /\ UNCHANGED <<thread_exc, pump_err>>
    /\ data' = <<>>
    /\ UNCHANGED <<fd_open, close_calls, alive, forked, reaped, term_sent>>
    /\ UNCHANGED <<stop_exc, r_ready, r_fd>>
    /\ UNCHANGED <<screen_vars, obj_vars, cb_vars, call_vars>>
    /\ UNCHANGED app_vars

\* lines 292-294: except (OSError, IOError) as e: if e.errno != errno.EINTR: break
loop_293 ==
    /\ pc["pump"] = "293"
    /\ IF ~errno_imported
       THEN PumpDies("NameError")
       ELSE /\ pc' = [pc EXCEPT !["pump"] = IF pump_err = "EINTR" THEN "272" ELSE "296"]
            /\ UNCHANGED thread_exc
    /\ UNCHANGED <<stop_exc, r_ready, r_fd, data, pump_err>>
    /\ UNCHANGED <<screen_vars, obj_vars, os_vars, cb_vars, call_vars>>
    /\ UNCHANGED app_vars

\* (mutation of loop_296: the stop() call of line 297 is left out)
loop_296_skips_stop ==
    /\ pc["pump"] = "296"
    /\ running' = FALSE
    /\ pc' = [pc EXCEPT !["pump"] = "298"]
    /\ UNCHANGED <<master_fd, slave_fd, process, write_queue>>
    /\ UNCHANGED <<stop_exc, thread_exc, r_ready, r_fd, data, pump_err>>
    /\ UNCHANGED <<screen_vars, os_vars, cb_vars, call_vars>>
    /\ UNCHANGED app_vars

\* line 296: self.running = False
loop_296 ==
    /\ pc["pump"] = "296"
    /\ running' = FALSE
    /\ pc' = [pc EXCEPT !["pump"] = "297"]
    /\ UNCHANGED <<master_fd, slave_fd, process, write_queue>>
    /\ UNCHANGED <<stop_exc, thread_exc, r_ready, r_fd, data, pump_err>>
    /\ UNCHANGED <<screen_vars, os_vars, cb_vars, call_vars>>
    /\ UNCHANGED app_vars

\* lines 298-299: if self.exit_callback: self.exit_callback()
loop_298 ==
    /\ pc["pump"] = "298"
    /\ exit_calls' = exit_calls + 1
    /\ pc' = [pc EXCEPT !["pump"] = "done"]
    /\ UNCHANGED <<stop_exc, thread_exc, r_ready, r_fd, data, pump_err, frame_calls, frame>>
    /\ UNCHANGED <<screen_vars, obj_vars, os_vars, call_vars>>
    /\ UNCHANGED app_vars

Pump ==
    \/ loop_272 \/ loop_275 \/ loop_276 \/ loop_277 \/ loop_279 \/ loop_287
    \/ loop_288 \/ loop_293 \/ loop_296 \/ loop_298

----------------------------------------------------------------------------
(***************************************************************************)
(* The session: a caller using start / write / stop, the pump thread and   *)
(* the child's process group.                                              *)
(***************************************************************************)
Next == Start \/ Write \/ Stop \/ Pump \/ ChildForks \/ ChildExits

Spec == Init /\ [][Next]_vars

(***************************************************************************)
(* The interpreter alone: one _process_output call per step on the buffer  *)
(* of a new object, for every chunk of Chunks.                             *)
(***************************************************************************)
\* lines 279-280 for one chunk; an exception ends the thread that called it
ProcessChunk(text) ==
    /\ proc_exc = "none"
    /\ chunks_fed < MaxChunks
    /\ LET st == process_output(text)
           shown == get_screen_content(st)
       IN /\ cursor_x' = st.cursor_x
          /\ cursor_y' = st.cursor_y
          /\ saved_cursor' = st.saved_cursor
          /\ alternate_screen' = st.alternate_screen
          /\ proc_exc' = st.exc
          /\ IF st.exc # "none"
             THEN screen' = st.screen /\ UNCHANGED <<frame_calls, frame>>
             ELSE /\ screen' = shown.screen
                  /\ frame_calls' = frame_calls + 1
                  /\ frame' = shown.output
    /\ chunks_fed' = chunks_fed + 1
    /\ last_text' = text
    /\ UNCHANGED <<obj_vars, os_vars, thread_vars, call_vars, exit_calls>>
    /\ UNCHANGED app_vars

FeedChunk == \E text \in Chunks : ProcessChunk(text)

NextScreen == FeedChunk

SpecScreen == Init /\ [][NextScreen]_vars

----------------------------------------------------------------------------
(***************************************************************************)
(* Properties.                                                             *)
(***************************************************************************)
PumpEnded == pc["pump"] \in {"done", "crashed"}

PumpAlive == pc["pump"] \notin {"none", "done", "crashed"}

\* C1: for a session that was started, once the pump thread has ended (the
\* interpreter having raised nothing), the exit callback has been invoked
\* exactly once; and it is never invoked more than once.
C1_ExitCallbackExactlyOnce ==
    /\ exit_calls <= 1
    /\ (start_result = "ok" /\ PumpEnded /\ proc_exc = "none") => exit_calls = 1

\* C2: a stop() call that ran while the other thread was inside stop() too
\* returns normally: it does not raise.
C2_ConcurrentStopsReturn ==
    \A t \in Threads : overlap[t] => stop_outcome[t] # "raised"

C6_WriteEnqueuesOrNothing ==
    [][\A entry \in Entries :
          write(entry) =>
             /\ write_queue' = IF running THEN Append(write_queue, entry) ELSE write_queue
             /\ UNCHANGED <<master_fd, slave_fd, process, running>>
             /\ UNCHANGED <<fd_open, close_calls, written, alive, reaped>>
             /\ UNCHANGED <<screen_vars, thread_vars, cb_vars>>]_vars

\* C6 witness: an entry accepted by write() on a running session is queued.
C6_Witness == running /\ Len(write_queue) = 1

\* the descriptors start() opened
OpenedByStart == DOMAIN close_calls

\* C7: after start() failed at pseudoterminal allocation, window-size
\* configuration, command splitting or process creation, the error was raised
\* to the caller, every descriptor that was opened is closed and was closed by
\* exactly one os.close call, running is false, no child and no pump thread
\* exist.
C7_FailedStartLeavesNothing ==
    ( /\ start_result \in {"openpty", "winsize", "split", "spawn"}
      /\ stops_started = 0 )
    => /\ thread_exc["ui"] # "none"
       /\ \A fd \in OpenedByStart : fd \notin fd_open /\ close_calls[fd] = 1
       /\ fd_open = {0, 1, 2}
       /\ running = FALSE
       /\ process = None
       /\ alive = {}
       /\ pc["pump"] = "none"

\* C7 witness: start() failed after both descriptors had been opened.
C7_Witness ==
    /\ start_result = "spawn"
    /\ stops_started = 0
    /\ Cardinality(OpenedByStart) = 2
    /\ master_fd # None
    /\ slave_fd # None

\* C8: a started session whose running flag is true has its pump thread
\* alive, its master descriptor open and the controlling process's copy of
\* the subordinate descriptor closed.
C8_RunningHasOnePump ==
    (start_result = "ok" /\ running)
    => /\ PumpAlive
       /\ master_fd \in fd_open
       /\ slave_fd \notin fd_open

\* C9: when select, read or write on the master descriptor raised an OSError
\* other than the interrupted-syscall one inside the loop, the pump thread
\* ends only by leaving the loop through stop() and the exit callback.
C9_LoopErrorEndsInExitCallback ==
    (pump_err \notin {"none", "EINTR"} /\ PumpEnded)
    => (pc["pump"] = "done" /\ exit_calls = 1)

\* C10: the signals of stop() reach every running process of the child's
\* group, and once a stop() call has returned no process of the group runs.
C10_WholeGroupSignalled ==
    /\ undelivered = {}
    /\ (start_result = "ok" /\ \E t \in Threads : stop_outcome[t] = "returned")
       => alive = {}

\* C4: after a chunk was processed the cursor is inside the grid.
C4_CursorInBounds ==
    proc_exc = "none" =>
       /\ 0 <= cursor_x /\ cursor_x < TermCols
       /\ 0 <= cursor_y /\ cursor_y < TermRows

\* C5: processing a chunk never raises.
C5_InterpreterNeverRaises == proc_exc = "none"

\* the statements of stop() after line 236, for thread t
stop_body(t) ==
    \/ stop_238(t) \/ stop_242(t) \/ stop_246(t) \/ stop_251(t) \/ stop_252(t)
    \/ stop_257(t) \/ stop_260(t) \/ stop_262(t) \/ stop_265(t) \/ stop_268(t)

\* no statement of stop() blocks for ever: a thread inside stop() can take
\* its next statement
StopNeverBlocks == \A t \in Threads : InStop(t) => ENABLED stop_body(t)

\* line 251 is entered only from the wait of line 246, with the child still
\* running (subprocess.TimeoutExpired)
KillOnlyAfterGraceWait ==
    \A t \in Threads :
       (pc[t] # "251" /\ pc'[t] = "251") =>
          (pc[t] = "246" /\ process # None /\ "leader" \in alive)

\* the wait of line 252 returns with the child reaped
KillReaps ==
    \A t \in Threads :
       (pc[t] = "252" /\ pc'[t] # "252" /\ process # None) =>
          (reaped' /\ "leader" \notin alive')

\* a stop() call of the caller on a live session, with no other stop() call
\* in progress, has returned without raising
LiveStopReturned ==
    (pc["ui"] = "idle" /\ stop_case = "live" /\ ~overlap["ui"])
    => /\ stop_outcome["ui"] = "returned"
       /\ process = None
       /\ master_fd = None
       /\ ~running

\* C11: stop() always terminates: no statement of it waits for ever, whether
\* the child exits on the SIGTERM or ignores it; the SIGKILL is sent only after
\* the wait of one second ended with the child still running, the wait after
\* it reaps the child, and the caller's stop() on a live session returns.
C11_StopTerminates ==
    /\ []StopNeverBlocks
    /\ []LiveStopReturned
    /\ [][KillOnlyAfterGraceWait /\ KillReaps]_vars

\* C11 witness: the child ignored the SIGTERM, the wait timed out and the
\* SIGKILL has ended it; the thread is at the wait of line 252.
C11_Witness ==
    \E t \in Threads :
       /\ pc[t] = "252"
       /\ term_sent
       /\ ~reaped
       /\ "leader" \notin alive

\* the pump thread called select, read or write on a descriptor that was not
\* open (OSError EBADF at line 275, 277 or 288)
PumpUsedClosedDescriptor == pump_err = "EBADF"

\* the pump thread called select, read or write with self.master_fd None
\* (TypeError out of the loop, the thread never reached line 297)
PumpUsedClearedDescriptor ==
    /\ pc["pump"] = "crashed"
    /\ thread_exc["pump"] = "TypeError"
    /\ stop_outcome["pump"] = "none"

\* every select, read and write of the pump thread so far was given the open
\* master descriptor
PumpCallsUseOpenDescriptor ==
    ~PumpUsedClosedDescriptor /\ ~PumpUsedClearedDescriptor

\* line 272 with running false leaves the loop
NoIterationAfterStop ==
    (pc["pump"] = "272" /\ ~running /\ pc'["pump"] # "272") => pc'["pump"] = "296"

\* C17: under every interleaving of a stop() call with the loop, the pump
\* thread never calls select, read or write on a master descriptor that
\* stop() has closed or set to None, and once running is false the test of
\* line 272 starts no further iteration.
C17_PumpNeverUsesStoppedDescriptor ==
    /\ []PumpCallsUseOpenDescriptor
    /\ [][NoIterationAfterStop]_vars

\* thread t leaves stop() at line 268 after its os.close was given a
\* descriptor number (self.master_fd was not None at line 262): the close
\* succeeded, or it raised OSError EBADF for a descriptor already closed
LeavesStopAfterClose(t) ==
    /\ pc[t] = "268"
    /\ pc'[t] # "268"
    /\ stop_exc[t] # "TypeError"

\* C19: a stop() call in which a step failed with an OS error (here the
\* os.close of a master descriptor that is already closed) still ends with
\* running false, the child handle and the master descriptor cleared, and
\* returns without raising.
C19_StopStepsGuarded ==
    [][\A t \in Threads :
          LeavesStopAfterClose(t) =>
             /\ stop_outcome'[t] = "returned"
             /\ ~running'
             /\ process' = None
             /\ master_fd' = None]_vars

----------------------------------------------------------------------------
(***************************************************************************)
(* The write path: a caller whose write() calls put up to MaxQueued        *)
(* entries on the queue, the pump thread, stop() and the child's exit.     *)
(***************************************************************************)
WriteFifo == \E entry \in Entries : Len(accepted) < MaxQueued /\ write(entry)

NextFifo == Start \/ WriteFifo \/ Stop \/ Pump \/ ChildExits

SpecFifo == Init /\ [][NextFifo]_vars

IsPrefix(s, q) == Len(s) <= Len(q) /\ \A k \in 1..Len(s) : s[k] = q[k]

\* what os.write has been given so far is the beginning of what write()
\* put on the queue
WrittenIsPrefixOfAccepted == IsPrefix(written, accepted)

\* the positions of the pump thread inside the while loop of line 272
LoopLines == {"272", "275", "276", "277", "279", "287", "288", "293"}

\* an entry reaches the descriptor only at line 288, one entry, and the line
\* after it is the loop test of the next iteration
OneWritePerIteration ==
    written' # written =>
       /\ pc["pump"] = "288"
       /\ pc'["pump"] = "272"
       /\ written' = Append(written, data)

\* the iteration whose read returned b'' breaks out of the loop (line 283)
\* without reaching line 288, and the loop is not entered again
EofIterationWritesNothing ==
    /\ (pc["pump"] = "277" /\ pc'["pump"] = "296") => written' = written
    /\ (pc["pump"] \notin LoopLines \cup {"none"}) => pc'["pump"] \notin LoopLines

\* C20: the entries the pump thread has written to the master descriptor are
\* always a prefix of the entries write() accepted, in the same order and none
\* twice; an iteration writes at most one entry, and the iteration that reads
\* end-of-stream writes none.
C20_WritesAreFifoPrefix ==
    /\ []WrittenIsPrefixOfAccepted
    /\ [][OneWritePerIteration /\ EofIterationWritesNothing]_vars

\* C20 witness: two different entries were accepted and both were written.
C20_Witness ==
    /\ Len(written) = 2
    /\ written[1] # written[2]
    /\ written = accepted

----------------------------------------------------------------------------
(***************************************************************************)
(* CommandHistory, src/src/aiterm/commands/command_history.py.             *)
(***************************************************************************)
HistoryCommands == {"ls -l", "git status"}

\* lengths of the output argument of add_command
OutputLengths == {0, OutputLimit + 1}

Min(a, b) == IF a < b THEN a ELSE b

Max(a, b) == IF a > b THEN a ELSE b

\* seq[first:] of Python: a negative first index counts from the end, and
\* the index is clamped to 0..len(seq)
PySliceFrom(seq, first) ==
    LET from == IF first < 0 THEN Max(Len(seq) + first, 0) ELSE Min(first, Len(seq))
    IN SubSeq(seq, from + 1, Len(seq))

\* lines 55-61: the entry of a command; the timestamp is the time of the
\* call, here the number of the call; output[:1000] keeps OutputLimit
\* characters at most
history_entry(command, working_dir, exit_code, output_len) ==
    [ command |-> command,
      working_dir |-> working_dir,
      timestamp |-> Len(history) + 1,
      exit_code |-> exit_code,
      output_len |-> Min(output_len, OutputLimit) ]

\* add_command, lines 46-63, with _save_history (lines 38-44): json.dump
\* writes the list to the file, and an exception of open or dump is printed
\* and leaves the file as it was
add_command(command, output_len, saved) ==
    /\ Len(history) < MaxHistory
    /\ history' = Append(history, history_entry(command, "/a", 0, output_len))
    /\ history_file' = IF saved THEN history' ELSE history_file
    /\ UNCHANGED <<recent, recent_count>>
    /\ UNCHANGED <<screen_vars, session_vars, gui_vars, dir_vars>>

\* get_recent_commands(count), lines 65-74: return self.history[-count:]
get_recent_commands(count) ==
    /\ recent' = PySliceFrom(history, 0 - count)
    /\ recent_count' = count
    /\ UNCHANGED <<history, history_file>>
    /\ UNCHANGED <<screen_vars, session_vars, gui_vars, dir_vars>>

AddCommand ==
    \E command \in HistoryCommands, output_len \in OutputLengths, saved \in BOOLEAN :
       add_command(command, output_len, saved)

GetRecentCommands == \E count \in 0..(MaxHistory + 1) : get_recent_commands(count)

NextHistory == AddCommand \/ GetRecentCommands

SpecHistory == Init /\ [][NextHistory]_vars

\* the last n entries of seq, oldest first
LastEntries(seq, n) == SubSeq(seq, Len(seq) - n + 1, Len(seq))

\* C15: for every history built by add_command calls and every count >= 0,
\* get_recent_commands(count) returns the last min(count, length) entries,
\* oldest first, and so never more than count entries.
C15_RecentReturnsLastCount ==
    [][\A count \in 0..(MaxHistory + 1) :
          get_recent_commands(count) =>
             /\ recent' = LastEntries(history, Min(count, Len(history)))
             /\ Len(recent') <= count]_vars

----------------------------------------------------------------------------
(***************************************************************************)
(* CommandExecutor.change_directory, src/src/aiterm/commands/executor.py   *)
(* lines 298-332 (src/src/aiterm/command/command_executor.py lines 58-79   *)
(* has the same statements).  An argument is a record: type is "str" for a *)
(* path, abs says that the path starts with "/", parts are its components. *)
(***************************************************************************)
AbsolutePath(parts) == [type |-> "str", abs |-> TRUE, parts |-> parts]

RelativePath(parts) == [type |-> "str", abs |-> FALSE, parts |-> parts]

\* the argument None (the default), and an argument that is no string
NoneArgument == [type |-> "NoneType", abs |-> FALSE, parts |-> <<>>]

IntArgument == [type |-> "int", abs |-> FALSE, parts |-> <<>>]

\* the paths given to the calls
CdPaths ==
    { AbsolutePath(p) : p \in Directories \cup RegularFiles \cup SymLinks
                               \cup { <<"x">>, <<"a", "f", "g">> } }
    \cup { RelativePath(p) : p \in { <<>>, <<"b">>, <<"f">>, <<"x">>, <<"..">>,
                                     <<"..", "c">>, <<"..", "l">> } }

CdArguments == {NoneArgument, IntArgument} \cup CdPaths

\* Python's None as the second element of the returned tuple
NoMessage == "None"

\* os.path.isabs
isabs(path) == path.abs

\* os.path.join(directory, path) for a relative path
join(directory, path) == AbsolutePath(directory \o path.parts)

\* os.path.realpath: the components are resolved from the left, ".." drops
\* the component before it, a symbolic link is replaced by its target; what
\* does not exist is kept as it is named
RECURSIVE resolve(_, _)
resolve(done, rest) ==
    IF rest = <<>> THEN done
    ELSE LET name == Head(rest)
             next == done \o <<name>>
         IN IF name = ".."
            THEN resolve(SubSeq(done, 1, Max(Len(done) - 1, 0)), Tail(rest))
            ELSE IF next \in SymLinks
            THEN resolve(<<>>, LinkTarget(next) \o Tail(rest))
            ELSE resolve(next, Tail(rest))

realpath(path) == resolve(<<>>, path.parts)

\* os.path.exists and os.path.isdir of a resolved path
exists(p) == p \in Directories \cup RegularFiles

isdir(p) == p \in Directories

\* the path the call resolves: lines 309-318
cd_target(directory, arg) ==
    LET path == IF arg = NoneArgument THEN AbsolutePath(Home) ELSE arg
    IN realpath(IF isabs(path) THEN path ELSE join(directory, path))

\* (mutation of change_directory: the assignment of line 328 is made before
\* the checks of lines 321 and 325)
change_directory_assigns_first(arg) ==
    /\ cd_calls < MaxCdCalls
    /\ cd_calls' = cd_calls + 1
    /\ cd_arg' = arg
    /\ IF arg = IntArgument
       THEN /\ cd_result' = <<FALSE, "TypeError">>
            /\ UNCHANGED working_directory
       ELSE LET path == cd_target(working_directory, arg)
            IN /\ working_directory' = path
               /\ cd_result' = IF ~exists(path) THEN <<FALSE, "Directory does not exist">>
                               ELSE IF ~isdir(path) THEN <<FALSE, "Not a directory">>
                               ELSE <<TRUE, NoMessage>>
    /\ UNCHANGED <<screen_vars, session_vars, gui_vars, hist_vars>>

\* change_directory(path), lines 298-332
\*   an argument that is no string makes os.path.isabs raise TypeError, which
\*   line 331 turns into (False, str(e))
change_directory(arg) ==
    /\ cd_calls < MaxCdCalls
    /\ cd_calls' = cd_calls + 1
    /\ cd_arg' = arg
    /\ IF arg = IntArgument
       THEN /\ cd_result' = <<FALSE, "TypeError">>
            /\ UNCHANGED working_directory
       ELSE LET path == cd_target(working_directory, arg)
            IN IF ~exists(path)
               THEN /\ cd_result' = <<FALSE, "Directory does not exist">>
                    /\ UNCHANGED working_directory
               ELSE IF ~isdir(path)
               THEN /\ cd_result' = <<FALSE, "Not a directory">>
                    /\ UNCHANGED working_directory
               ELSE /\ working_directory' = path
                    /\ cd_result' = <<TRUE, NoMessage>>
    /\ UNCHANGED <<screen_vars, session_vars, gui_vars, hist_vars>>

ChangeDirectory == \E arg \in CdArguments : change_directory(arg)

NextDirectory == ChangeDirectory

SpecDirectory == Init /\ [][NextDirectory]_vars

\* C16: change_directory(path) on a path that does not exist or is not a
\* directory returns failure with an error message and leaves
\* working_directory as it was; when it returns success, working_directory is
\* the resolved target, a directory, and the message is None.
C16_ChangeDirectory ==
    [][\A arg \in {NoneArgument} \cup CdPaths :
          change_directory(arg) =>
             LET target == cd_target(working_directory, arg)
             IN /\ (~exists(target) \/ ~isdir(target)) =>
                      /\ cd_result'[1] = FALSE
                      /\ cd_result'[2] # NoMessage
                      /\ working_directory' = working_directory
                /\ (exists(target) /\ isdir(target)) =>
                      /\ cd_result' = <<TRUE, NoMessage>>
                      /\ working_directory' = target]_vars

\* C16 witness: a call moved the object to /a/b (through a relative path or
\* the symbolic link) and a later call failed and left it there.
C16_Witness ==
    /\ cd_calls >= 2
    /\ working_directory = <<"a", "b">>
    /\ cd_result[1] = FALSE

----------------------------------------------------------------------------
(***************************************************************************)
(* TerminalGUI and the PseudoTerminal objects it creates (lines 634-667,   *)
(* 514-545, 673-724, 781-785, 806-815).  A session object is a record:     *)
(*   running    self.running                                               *)
(*   pump       where its pump thread is: "none" (no thread), "loop"       *)
(*              (lines 272-294), "297" (left the loop, in its own stop()), *)
(*              "298" (about to call exit_callback), "811" (inside         *)
(*              pty_exit_callback, line 810 done), "done", "crashed"       *)
(*   accepted   the entries write() has put on its queue                   *)
(*   turned_on  how many times running went from false to true             *)
(* gui_pty is the index of the object self.pty refers to, or None.         *)
(***************************************************************************)
\* the object after PseudoTerminal.__init__ (lines 60-90)
NewSession == [running |-> FALSE, pump |-> "none", accepted |-> <<>>, turned_on |-> 0]

\* the ways start() ends (lines 182-229): it returns; it raises before
\* line 222; Thread.start raises after line 222 set running
StartOutcomes == {"ok", "raised_before_222", "raised_after_222"}

\* start() on session i
session_started(s, outcome) ==
    IF outcome = "raised_before_222" THEN s
    ELSE [s EXCEPT !.running = TRUE,
                   !.turned_on = @ + (IF s.running THEN 0 ELSE 1),
                   !.pump = IF outcome = "ok" THEN "loop" ELSE @]

\* stop() on a session, line 236: self.running = False (what stop() does to
\* the child and the descriptor is in stop_236 .. stop_268)
session_stopped(s) == [s EXCEPT !.running = FALSE]

\* stop() called from the Tk thread can raise when the pump thread can be
\* inside its own stop() call at the same time
StopCanRaise(s) == s.pump \in {"loop", "297"}

\* write(data) on a session, lines 314-317
session_write(s, entry) ==
    IF s.running THEN [s EXCEPT !.accepted = Append(@, entry)] ELSE s

\* ---- the pump thread of session i, lines 270-299
\* lines 272-296: the loop ends (running seen false, end-of-stream, OSError)
pump_leaves_loop(i) ==
    /\ i \in DOMAIN sessions
    /\ sessions[i].pump = "loop"
    /\ sessions' = [sessions EXCEPT ![i].pump = "297", ![i].running = FALSE]
    /\ UNCHANGED <<gui_pty, in_pty_mode, gui_pc, keys_handled>>
    /\ UNCHANGED <<screen_vars, session_vars, hist_vars, dir_vars>>

\* an exception leaves the loop (lines 275-293) or the stop() of line 297:
\* the thread ends, running stays as it is, exit_callback is not called
pump_crashes(i) ==
    /\ i \in DOMAIN sessions
    /\ sessions[i].pump \in {"loop", "297"}
    /\ sessions' = [sessions EXCEPT ![i].pump = "crashed"]
    /\ UNCHANGED <<gui_pty, in_pty_mode, gui_pc, keys_handled>>
    /\ UNCHANGED <<screen_vars, session_vars, hist_vars, dir_vars>>

\* line 297: self.stop() returns
pump_stop_returns(i) ==
    /\ i \in DOMAIN sessions
    /\ sessions[i].pump = "297"
    /\ sessions' = [sessions EXCEPT ![i].pump = "298"]
    /\ UNCHANGED <<gui_pty, in_pty_mode, gui_pc, keys_handled>>
    /\ UNCHANGED <<screen_vars, session_vars, hist_vars, dir_vars>>

\* lines 298-299 and 810: exit_callback(), which is TerminalGUI's
\* pty_exit_callback, runs in the pump thread: self.in_pty_mode = False
pty_exit_callback_810(i) ==
    /\ i \in DOMAIN sessions
    /\ sessions[i].pump = "298"
    /\ in_pty_mode' = FALSE
    /\ sessions' = [sessions EXCEPT ![i].pump = "811"]
    /\ UNCHANGED <<gui_pty, gui_pc, keys_handled>>
    /\ UNCHANGED <<screen_vars, session_vars, hist_vars, dir_vars>>

\* line 811: self.pty = None
pty_exit_callback_811(i) ==
    /\ i \in DOMAIN sessions
    /\ sessions[i].pump = "811"
    /\ gui_pty' = None
    /\ sessions' = [sessions EXCEPT ![i].pump = "done"]
    /\ UNCHANGED <<in_pty_mode, gui_pc, keys_handled>>
    /\ UNCHANGED <<screen_vars, session_vars, hist_vars, dir_vars>>

SessionPump ==
    \E i \in 1..MaxSessions :
       \/ pump_leaves_loop(i) \/ pump_crashes(i) \/ pump_stop_returns(i)
       \/ pty_exit_callback_810(i) \/ pty_exit_callback_811(i)

\* ---- start_pty_mode(command), lines 634-667, in the Tk thread
\* line 639: if self.pty
start_pty_mode_639 ==
    /\ gui_pc = "idle"
    /\ Len(sessions) < MaxSessions
    /\ gui_pc' = IF gui_pty # None THEN "641" ELSE "645"
    /\ UNCHANGED <<gui_pty, in_pty_mode, sessions, keys_handled>>
    /\ UNCHANGED <<screen_vars, session_vars, hist_vars, dir_vars>>

\* line 641: self.pty.stop(); an exception (self.pty is None by now, or
\* stop() raised) leaves start_pty_mode, line 641 being outside the try
start_pty_mode_641 ==
    /\ gui_pc = "641"
    /\ IF gui_pty = None
       THEN gui_pc' = "idle" /\ UNCHANGED sessions
       ELSE /\ sessions' = [sessions EXCEPT ![gui_pty] = session_stopped(@)]
            /\ \/ gui_pc' = "642"
               \/ StopCanRaise(sessions[gui_pty]) /\ gui_pc' = "idle"
    /\ UNCHANGED <<gui_pty, in_pty_mode, keys_handled>>
    /\ UNCHANGED <<screen_vars, session_vars, hist_vars, dir_vars>>

\* line 642: self.pty = None
start_pty_mode_642 ==
    /\ gui_pc = "642"
    /\ gui_pty' = None
    /\ gui_pc' = "645"
    /\ UNCHANGED <<in_pty_mode, sessions, keys_handled>>
    /\ UNCHANGED <<screen_vars, session_vars, hist_vars, dir_vars>>

\* (mutation of start_pty_mode_645: the object created last is used again)
start_pty_mode_645_reuses ==
    /\ gui_pc = "645"
    /\ IF sessions = <<>>
       THEN sessions' = <<NewSession>> /\ gui_pty' = 1
       ELSE UNCHANGED sessions /\ gui_pty' = Len(sessions)
    /\ gui_pc' = "649"
    /\ UNCHANGED <<in_pty_mode, keys_handled>>
    /\ UNCHANGED <<screen_vars, session_vars, hist_vars, dir_vars>>

\* line 645: self.pty = PseudoTerminal(...), a new object
start_pty_mode_645 ==
    /\ gui_pc = "645"
    /\ sessions' = Append(sessions, NewSession)
    /\ gui_pty' = Len(sessions) + 1
    /\ gui_pc' = "649"
    /\ UNCHANGED <<in_pty_mode, keys_handled>>
    /\ UNCHANGED <<screen_vars, session_vars, hist_vars, dir_vars>>

\* line 649: self.pty.start(command), inside the try; an exception (self.pty
\* is None by now, or start() raised) runs lines 664-665
start_pty_mode_649 ==
    /\ gui_pc = "649"
    /\ IF gui_pty = None
       THEN /\ in_pty_mode' = FALSE
            /\ gui_pc' = "idle"
            /\ UNCHANGED <<gui_pty, sessions>>
       ELSE \E outcome \in StartOutcomes :
               /\ sessions' = [sessions EXCEPT ![gui_pty] = session_started(@, outcome)]
               /\ IF outcome = "ok"
                  THEN gui_pc' = "650" /\ UNCHANGED <<gui_pty, in_pty_mode>>
                  ELSE gui_pc' = "idle" /\ gui_pty' = None /\ in_pty_mode' = FALSE
    /\ UNCHANGED keys_handled
    /\ UNCHANGED <<screen_vars, session_vars, hist_vars, dir_vars>>

\* line 650: self.in_pty_mode = True (and the key bindings, lines 656-660)
start_pty_mode_650 ==
    /\ gui_pc = "650"
    /\ in_pty_mode' = TRUE
    /\ gui_pc' = "idle"
    /\ UNCHANGED <<gui_pty, sessions, keys_handled>>
    /\ UNCHANGED <<screen_vars, session_vars, hist_vars, dir_vars>>

StartPtyMode ==
    \/ start_pty_mode_639 \/ start_pty_mode_641 \/ start_pty_mode_642
    \/ start_pty_mode_645 \/ start_pty_mode_649 \/ start_pty_mode_650

\* ---- execute_command with the command 'exit', lines 535-543
\* line 537: if self.pty (with no session the application quits)
execute_exit_537 ==
    /\ gui_pc = "idle"
    /\ gui_pty # None
    /\ gui_pc' = "539"
    /\ UNCHANGED <<gui_pty, in_pty_mode, sessions, keys_handled>>
    /\ UNCHANGED <<screen_vars, session_vars, hist_vars, dir_vars>>

\* line 539: self.pty.stop(), outside any try
execute_exit_539 ==
    /\ gui_pc = "539"
    /\ IF gui_pty = None
       THEN gui_pc' = "idle" /\ UNCHANGED sessions
       ELSE /\ sessions' = [sessions EXCEPT ![gui_pty] = session_stopped(@)]
            /\ \/ gui_pc' = "540"
               \/ StopCanRaise(sessions[gui_pty]) /\ gui_pc' = "idle"
    /\ UNCHANGED <<gui_pty, in_pty_mode, keys_handled>>
    /\ UNCHANGED <<screen_vars, session_vars, hist_vars, dir_vars>>

\* line 540: self.pty = None
execute_exit_540 ==
    /\ gui_pc = "540"
    /\ gui_pty' = None
    /\ gui_pc' = "541"
    /\ UNCHANGED <<in_pty_mode, sessions, keys_handled>>
    /\ UNCHANGED <<screen_vars, session_vars, hist_vars, dir_vars>>

\* line 541: self.in_pty_mode = False
execute_exit_541 ==
    /\ gui_pc = "541"
    /\ in_pty_mode' = FALSE
    /\ gui_pc' = "idle"
    /\ UNCHANGED <<gui_pty, sessions, keys_handled>>
    /\ UNCHANGED <<screen_vars, session_vars, hist_vars, dir_vars>>

ExecuteExit ==
    \/ execute_exit_537 \/ execute_exit_539 \/ execute_exit_540 \/ execute_exit_541

\* ---- destroy(), lines 781-785: if self.pty: self.pty.stop()
destroy ==
    /\ gui_pc = "idle"
    /\ gui_pc' = "destroyed"
    /\ sessions' = IF gui_pty # None
                   THEN [sessions EXCEPT ![gui_pty] = session_stopped(@)]
                   ELSE sessions
    /\ UNCHANGED <<gui_pty, in_pty_mode, keys_handled>>
    /\ UNCHANGED <<screen_vars, session_vars, hist_vars, dir_vars>>

(***************************************************************************)
(* The window: interactive commands, the exit command, closing the window, *)
(* and the pump threads of the sessions.                                   *)
(***************************************************************************)
NextGui == StartPtyMode \/ ExecuteExit \/ destroy \/ SessionPump

SpecGui == Init /\ [][NextGui]_vars

\* the newest session object
Newest == Len(sessions)

\* running of a session goes from false to true only on an object whose
\* running was never true before
TurnsOnOnlyOnce ==
    \A i \in DOMAIN sessions :
       (~sessions[i].running /\ sessions'[i].running) => sessions[i].turned_on = 0

\* line 645 binds self.pty to an object that did not exist before, with
\* running false, and leaves the older objects as they are
StartPtyModeMakesNewObject ==
    (gui_pc = "645" /\ gui_pc' = "649") =>
       /\ Len(sessions') = Len(sessions) + 1
       /\ gui_pty' = Len(sessions')
       /\ sessions'[gui_pty'] = NewSession
       /\ SubSeq(sessions', 1, Len(sessions)) = sessions

\* C12: the running flag of a session object is false before start(), becomes
\* true at most once, and once it went from true to false it is never true
\* again on that object, whatever the window does; every interactive command
\* gets a new session object.
C12_RunningOneDirectional ==
    /\ [](\A i \in DOMAIN sessions : sessions[i].turned_on <= 1)
    /\ [][TurnsOnOnlyOnce /\ StartPtyModeMakesNewObject]_vars

\* C12 witness: the first session ran and was stopped, and a second
\* interactive command runs in a second object.
C12_Witness ==
    /\ Len(sessions) = 2
    /\ sessions[1].turned_on = 1
    /\ ~sessions[1].running
    /\ sessions[2].running

\* C18: after start_pty_mode replaced a session by a new one and returned,
\* as long as the new session is running self.pty refers to it and
\* in_pty_mode is true: the exit callback of the replaced session does not
\* clear them.
C18_LateExitCallbackKeepsNewSession ==
    ( /\ gui_pc = "idle"
      /\ Newest >= 2
      /\ sessions[Newest].running
      /\ sessions[Newest].pump # "none" )
    => (gui_pty = Newest /\ in_pty_mode)

----------------------------------------------------------------------------
(***************************************************************************)
(* handle_key(event), lines 673-724.  A key event is a record: keysym and  *)
(* state as Tk reports them, char the characters of event.char as code     *)
(* points.                                                                 *)
(***************************************************************************)
KeyEvent(keysym, state, char) == [keysym |-> keysym, state |-> state, char |-> char]

\* the events Tk delivers for: Ctrl+C, Ctrl+Shift+C, Ctrl+D, Ctrl+Z; Enter,
\* Backspace, Tab, and the three with Control held; a, q, space, b, Shift+A,
\* a with NumLock on; Ctrl+1 (character "1") and Ctrl+A (character 0x01);
\* the Shift key alone (no character)
KeyEvents ==
    { KeyEvent("c", ControlMask, <<3>>), KeyEvent("C", ControlMask + ShiftMask, <<3>>),
      KeyEvent("d", ControlMask, <<4>>), KeyEvent("z", ControlMask, <<26>>),
      KeyEvent("Return", 0, <<13>>), KeyEvent("BackSpace", 0, <<8>>),
      KeyEvent("Tab", 0, <<9>>),
      KeyEvent("Return", ControlMask, <<13>>), KeyEvent("BackSpace", ControlMask, <<8>>),
      KeyEvent("Tab", ControlMask, <<9>>),
      KeyEvent("a", 0, <<97>>), KeyEvent("q", 0, <<113>>), KeyEvent("space", 0, <<32>>),
      KeyEvent("b", 0, <<98>>), KeyEvent("A", ShiftMask, <<65>>),
      KeyEvent("a", NumLockMask, <<97>>),
      KeyEvent("1", ControlMask, <<49>>), KeyEvent("a", ControlMask, <<1>>),
      KeyEvent("Shift_L", 0, <<>>) }

\* line 683: event.state & 0x4
ControlPressed(event) == (event.state \div ControlMask) % 2 = 1

\* lines 683-724: the argument of the self.pty.write call the chain of tests
\* makes for the event, as a sequence of no or one entry
key_entry(event) ==
    IF ControlPressed(event)
    THEN IF event.keysym \in {"c", "C"} THEN << <<3>> >>
         ELSE IF event.keysym \in {"d", "D"} THEN << <<4>> >>
         ELSE IF event.keysym \in {"z", "Z"} THEN << <<26>> >>
         ELSE <<>>
    ELSE IF event.keysym = "q" THEN << <<113>> >>
    ELSE IF event.keysym = "space" THEN << <<SPACE>> >>
    ELSE IF event.keysym = "b" THEN << <<98>> >>
    ELSE IF event.keysym = "Return" THEN << <<CR>> >>
    ELSE IF event.keysym = "BackSpace" THEN << <<DEL>> >>
    ELSE IF event.keysym = "Tab" THEN << <<TAB>> >>
    ELSE IF Len(event.char) > 0 THEN << event.char >>
    ELSE <<>>

\* handle_key(event): line 675 returns when not in_pty_mode or self.pty is
\* None; the write() of the chain is a call on the object self.pty refers to
handle_key(event) ==
    /\ gui_pc = "idle"
    /\ keys_handled < MaxKeys
    /\ keys_handled' = keys_handled + 1
    /\ sessions' = IF in_pty_mode /\ gui_pty # None /\ key_entry(event) # <<>>
                   THEN [sessions EXCEPT ![gui_pty] = session_write(@, key_entry(event)[1])]
                   ELSE sessions
    /\ UNCHANGED <<gui_pty, in_pty_mode, gui_pc>>
    /\ UNCHANGED <<screen_vars, session_vars, hist_vars, dir_vars>>

HandleKey == \E event \in KeyEvents : handle_key(event)

(***************************************************************************)
(* The window with its keyboard.                                           *)
(***************************************************************************)
NextKeys == StartPtyMode \/ ExecuteExit \/ destroy \/ SessionPump \/ HandleKey

SpecKeys == Init /\ [][NextKeys]_vars

\* an interactive session is active: the newest session object was started
\* (it has a pump thread) and its running flag is true
SessionActive ==
    /\ gui_pc = "idle"
    /\ Newest >= 1
    /\ sessions[Newest].running
    /\ sessions[Newest].pump # "none"

\* the key events for Ctrl+C, Ctrl+D, Ctrl+Z, Enter, Backspace and Tab, and
\* the byte of each
IsCtrlKey(event, lower, upper) == ControlPressed(event) /\ event.keysym \in {lower, upper}

SpecialKeyByte(event) ==
    IF IsCtrlKey(event, "c", "C") THEN 3
    ELSE IF IsCtrlKey(event, "d", "D") THEN 4
    ELSE IF IsCtrlKey(event, "z", "Z") THEN 26
    ELSE IF event.keysym = "Return" THEN 13
    ELSE IF event.keysym = "BackSpace" THEN 127
    ELSE IF event.keysym = "Tab" THEN 9
    ELSE None

SpecialKeyEvents == { event \in KeyEvents : SpecialKeyByte(event) # None }

\* the queue of the active session gets exactly the entry, and nothing else
\* changes in any session
EnqueuesExactly(entry) ==
    sessions' = [sessions EXCEPT ![Newest].accepted = Append(@, entry)]

\* C13: while an interactive session is active a key event for Ctrl+C,
\* Ctrl+D, Ctrl+Z, Enter, Backspace or Tab enqueues exactly one entry, the
\* byte 0x03, 0x04, 0x1A, 0x0D, 0x7F or 0x09, whatever keys came before; with
\* no session active a key event enqueues nothing.
C13_SpecialKeysEnqueueTheirByte ==
    [][\A event \in KeyEvents :
          handle_key(event) =>
             IF SessionActive
             THEN event \in SpecialKeyEvents => EnqueuesExactly(<<SpecialKeyByte(event)>>)
             ELSE sessions' = sessions]_vars

\* a key event that carries one printable character and is none of the
\* specially mapped keys
PrintableKeyEvents ==
    { event \in KeyEvents \ SpecialKeyEvents :
         Len(event.char) = 1 /\ event.char[1] \in 32..126 }

\* C14: while an interactive session is active a key event that carries a
\* printable character and is none of the specially mapped keys enqueues
\* exactly that character, whatever the modifier state of the event.
C14_PrintableKeysForwarded ==
    [][\A event \in PrintableKeyEvents :
          (handle_key(event) /\ SessionActive) => EnqueuesExactly(event.char)]_vars

----------------------------------------------------------------------------
(***************************************************************************)
(* The frames the pump delivers (lines 277-283 and 301-312).               *)
(***************************************************************************)
\* the pump executes lines 279-280 on the chunk it has read
HandlesChunk == pc["pump"] = "279" /\ pc'["pump"] # "279"

\* os.read returned b'': every holder of the subordinate end is gone and no
\* error was raised
EmptyRead ==
    /\ pc["pump"] = "277" /\ pc'["pump"] # "277"
    /\ master_fd \in fd_open
    /\ alive = {}
    /\ pump_err' = pump_err

\* the text _get_screen_content returns for the buffer of the next state
RenderingOfNextBuffer ==
    get_screen_content([screen |-> screen', cursor_x |-> cursor_x',
                        cursor_y |-> cursor_y']).output

\* C21: for every non-empty chunk the pump has read it invokes the frame
\* callback exactly once, after the interpreter processed the whole chunk,
\* with the rendering of the buffer as it is after that chunk; the callback
\* is invoked nowhere else, and an empty read invokes no callback and leaves
\* the loop.
C21_OneFramePerChunk ==
    [][ /\ HandlesChunk =>
              /\ data # <<>>
              /\ LET st == process_output(data)
                 IN /\ screen' = st.screen
                    /\ cursor_x' = st.cursor_x
                    /\ cursor_y' = st.cursor_y
              /\ frame_calls' = frame_calls + 1
              /\ frame' = RenderingOfNextBuffer
        /\ frame_calls' # frame_calls => HandlesChunk
        /\ EmptyRead => (frame_calls' = frame_calls /\ pc'["pump"] = "296")
      ]_vars

\* C22: no frame callback is invoked once the exit callback of the session
\* has been invoked, and the exit callback is invoked only by the pump thread
\* at line 298, with the running flag false and the pump's own stop() call
\* returned.
C22_NoFrameAfterExit ==
    [][ /\ frame_calls' # frame_calls => exit_calls = 0
        /\ exit_calls' # exit_calls =>
              /\ pc["pump"] = "298"
              /\ ~running
              /\ stop_outcome["pump"] = "returned"
      ]_vars

\* C22 witness: a frame was delivered and later the exit callback was invoked.
C22_Witness ==
    /\ frame_calls = 1
    /\ exit_calls = 1
    /\ pc["pump"] = "done"

----------------------------------------------------------------------------
(***************************************************************************)
(* The interpreter, chunk by chunk (lines 102-175).                        *)
(***************************************************************************)
\* positions of an ESC after which the text holds no terminating letter
OpenSequences(text) ==
    { i \in 1..Len(text) : text[i] = ESC /\ FindEnd(text, i + 1) > Len(text) }

\* the text ends inside an escape sequence
EndsInsideSequence(text) == OpenSequences(text) # {}

\* the text before the escape sequence it ends in
CompletePart(text) ==
    LET i == CHOOSE i \in OpenSequences(text) : \A k \in OpenSequences(text) : i <= k
    IN SubSeq(text, 1, i - 1)

\* a _process_output call that did not raise left cells and cursor as st has them
LeavesBufferAs(st) ==
    /\ proc_exc' = "none"
    /\ screen' = st.screen
    /\ cursor_x' = st.cursor_x
    /\ cursor_y' = st.cursor_y

\* C23: a chunk that ends inside an escape sequence leaves the cells and the
\* cursor as the text before that sequence leaves them: no character of the
\* partial sequence is written into a cell or moves the cursor.
C23_PartialSequenceDropped ==
    [][ \A text \in Chunks :
          ( /\ ProcessChunk(text)
            /\ EndsInsideSequence(text)
            /\ process_output(CompletePart(text)).exc = "none" )
          => LeavesBufferAs(process_output(CompletePart(text)))
      ]_vars

\* the cursor-position sequences of Chunks, with the 1-indexed row and column
\* each one names (an omitted parameter standing for 1)
CursorPositions ==
    { [text |-> CSI(<<72>>), row |-> 1, col |-> 1],
      [text |-> CSI(<<50, 72>>), row |-> 2, col |-> 1],
      [text |-> CSI(<<50, SEMICOLON, 50, 72>>), row |-> 2, col |-> 2],
      [text |-> CSI(<<57, SEMICOLON, 49, 72>>), row |-> 9, col |-> 1],
      [text |-> CSI(<<49, SEMICOLON, 57, 72>>), row |-> 1, col |-> 9] }

\* C24: ESC [ r ; c H moves the cursor to row r - 1, column c - 1; ESC [ H
\* moves it to (0, 0), and a missing column parameter stands for column 1.
C24_CursorPosition ==
    [][ \A p \in CursorPositions :
          ProcessChunk(p.text) =>
             /\ proc_exc' = "none"
             /\ cursor_y' = p.row - 1
             /\ cursor_x' = p.col - 1
      ]_vars

\* C25: a sequence that is none of the recognized forms changes neither the
\* cells, nor the cursor, nor the saved cursor, nor the alternate-screen flag,
\* and the character after its terminator is processed as it would be
\* without the sequence.
C25_UnrecognizedSequenceIgnored ==
    [][ \A u \in UnrecognizedPieces :
          /\ ProcessChunk(u) =>
                /\ proc_exc' = "none"
                /\ UNCHANGED <<screen, cursor_x, cursor_y, saved_cursor, alternate_screen>>
          /\ ProcessChunk(u \o <<98>>) =>
                /\ LeavesBufferAs(process_output(<<98>>))
                /\ UNCHANGED <<saved_cursor, alternate_screen>>
      ]_vars

\* this step is a _process_output call on text
Processed(text) == chunks_fed' = chunks_fed + 1 /\ last_text' = text

\* the chunks of Chunks that hold a save-cursor sequence
HoldsSave(text) ==
    \E i \in 1..(Len(text) - 2) : SubSeq(text, i, i + 2) = CSI(<<115>>)

\* C26: the cursor recorded by save-cursor is the (x, y) pair the cursor had
\* at the save; no chunk without a save changes the recorded pair, whatever
\* it moves or writes, and restore-cursor sets the cursor to exactly that
\* pair and leaves it recorded, so that a second restore yields it again.
C26_SaveRestoreRoundTrip ==
    [][ \A text \in Chunks :
          (Processed(text) /\ proc_exc' = "none") =>
             /\ text = CSI(<<115>>) =>
                   (saved_cursor' = <<cursor_x, cursor_y>> /\ UNCHANGED <<cursor_x, cursor_y>>)
             /\ text = <<LF>> \o CSI(<<115>>) =>
                   saved_cursor' = <<cursor_x', cursor_y'>>
             /\ ~HoldsSave(text) => UNCHANGED saved_cursor
             /\ text = CSI(<<117>>) =>
                   (<<cursor_x', cursor_y'>> = saved_cursor /\ UNCHANGED saved_cursor)
      ]_vars

\* C26 witness: the cursor was saved at (0, 1), a character was written there
\* (which moved the cursor), and restore-cursor has put the cursor back.
C26_Witness ==
    /\ last_text = CSI(<<117>>)
    /\ proc_exc = "none"
    /\ saved_cursor = <<0, 1>>
    /\ <<cursor_x, cursor_y>> = saved_cursor
    /\ screen[2][1] = 97

\* the cursor is at column 0 of a row of the grid
AtRowStart == cursor_x = 0 /\ cursor_y \in 0..(TermRows - 1)

\* C27: from column 0 of a row, k printable characters with k <= cols leave
\* the cursor at column k of the same row: no wrap, k = cols included.
C27_NoWrapUpToCols ==
    [][ \A k \in 1..TermCols :
          (AtRowStart /\ Processed(Run(k))) =>
             /\ cursor_x' = k
             /\ cursor_y' = cursor_y
      ]_vars

\* the last character of a run of cols + 1 characters
WrappedChar == Run(TermCols + 1)[TermCols + 1]

\* the row below row y (0-based) before a step that filled row y, as the
\* step found it: the row below, or the blank row a scroll appended
RowBelow(y) == IF y < TermRows - 1 THEN screen[y + 2] ELSE BlankRow

\* C28: cols printable characters written from column 0 of a row are all held
\* by that row afterwards, and the cursor is at column 0 of the following row
\* (the new bottom row when the filled row was the last one); the next
\* printable character is stored at column 0 of that following row, and
\* neither the filled row nor the other cells of the following row change.
C28_WrapAfterFullRow ==
    [][ /\ (AtRowStart /\ Processed(Run(TermCols))) =>
              /\ cursor_x' = 0
              /\ cursor_y' = IF cursor_y < TermRows - 1 THEN cursor_y + 1 ELSE TermRows - 1
              /\ screen'[cursor_y'] = Run(TermCols)
              /\ screen'[cursor_y' + 1] = RowBelow(cursor_y)
        /\ (AtRowStart /\ Processed(Run(TermCols + 1))) =>
              /\ cursor_x' = 1
              /\ cursor_y' = IF cursor_y < TermRows - 1 THEN cursor_y + 1 ELSE TermRows - 1
              /\ screen'[cursor_y'] = Run(TermCols)
              /\ screen'[cursor_y' + 1] = [RowBelow(cursor_y) EXCEPT ![1] = WrappedChar]
        /\ \A c \in {97, 98} :
              (AtRowStart /\ cursor_y > 0 /\ screen[cursor_y] = Run(TermCols) /\ Processed(<<c>>)) =>
                 screen' = [screen EXCEPT ![cursor_y + 1][1] = c]
      ]_vars

\* C28 witness: a row was filled from column 0 and the character after it is
\* at column 0 of the row that follows.
C28_Witness ==
    /\ last_text = Run(TermCols + 1)
    /\ cursor_y \in 1..(TermRows - 1)
    /\ screen[cursor_y] = Run(TermCols)
    /\ screen[cursor_y + 1][1] = WrappedChar
    /\ cursor_x = 1

\* the grid after one scroll: the first row gone, the others one row up, a
\* blank row at the bottom
ScrolledByOne(grid) == Append(Tail(grid), BlankRow)

\* C29: a newline with the cursor on (or below) the last row, and a printable
\* character stored in the last column of the last row, scroll the buffer by
\* exactly one row: the first row is discarded, every other row moves up by
\* one unchanged, a blank row is appended, and the cursor ends on the last row.
C29_ScrollByOneRow ==
    [][ /\ (cursor_y >= TermRows - 1 /\ Processed(<<LF>>)) =>
              /\ screen' = ScrolledByOne(screen)
              /\ cursor_y' = TermRows - 1
              /\ cursor_x' = 0
        /\ \A c \in {97, 98} :
              (cursor_y = TermRows - 1 /\ cursor_x = TermCols - 1 /\ Processed(<<c>>)) =>
                 /\ screen' = ScrolledByOne([screen EXCEPT ![TermRows][TermCols] = c])
                 /\ cursor_y' = TermRows - 1
                 /\ cursor_x' = 0
      ]_vars

\* C29 witness: after a newline the cursor was saved at (0, 1), a character
\* was written on that row, and a newline on the last row has scrolled it up.
C29_Witness ==
    /\ chunks_fed = 3
    /\ last_text = <<LF>>
    /\ saved_cursor = <<0, 1>>
    /\ <<cursor_x, cursor_y>> = <<0, TermRows - 1>>
    /\ screen[TermRows - 1][1] = 97
    /\ screen[TermRows] = BlankRow

\* the grid has rows lines of cols cells each
GridShape ==
    /\ Len(screen) = TermRows
    /\ \A y \in 1..TermRows : Len(screen[y]) = TermCols

\* the step that processed a chunk and rendered the frame left the cells as
\* the interpreter left them
RenderingKeepsCells ==
    \A text \in Chunks :
       (Processed(text) /\ proc_exc' = "none") => screen' = process_output(text).screen

\* C30: in every reachable state the screen buffer has exactly rows lines of
\* exactly cols cells, and rendering a frame modifies no cell.
C30_GridShapeKept == []GridShape /\ [][RenderingKeepsCells]_vars

\* C30 witness: on the alternate screen, after a newline and a save on the
\* last row, a run of cols + 1 characters filled that row, wrapped and
\* scrolled the grid; the frame shows the cursor glyph over a cell that holds
\* a space.
C30_Witness ==
    /\ alternate_screen
    /\ chunks_fed = 3
    /\ last_text = Run(TermCols + 1)
    /\ saved_cursor = <<0, 1>>
    /\ <<cursor_x, cursor_y>> = <<1, TermRows - 1>>
    /\ screen[TermRows - 1] = Run(TermCols)
    /\ screen[TermRows][2] = SPACE
    /\ frame # <<>>
    /\ frame[Len(frame)] = FULL_BLOCK

====
